---- MODULE Spec2Model ----
(***************************************************************************)
(* Matcha backend: the social graph (likes, blocks, visits), the fame      *)
(* rating, the notification log, connection-gated chat and the browsing    *)
(* pipeline, as a state machine over the relational store.                 *)
(*                                                                         *)
(* Every REST handler runs its statements inside `with Database() as db`,  *)
(* which commits on exit, so one request is one action here.  Numbers with *)
(* two decimals (fame_rating) are kept in hundredths.                      *)
(***************************************************************************)
EXTENDS Integers, Sequences, FiniteSets, Bags, TLC

(* ------------------------------- bounds -------------------------------- *)
NumUsers == 3
NumVisitUsers == 2
NumChatUsers == 2
NumPhotoUsers == 2
NumBrowseUsers == 3
NumOrientUsers == 2
NumSortUsers == 4
NumDateUsers == 2
NumNotifyUsers == 2
NumSelfUsers == 2
NumAuthUsers == 3
NumRepeatUsers == 2
NumImageUsers == 1
NumReadUsers == 3
MaxSecrets == 2
NumRaceUsers == 3
MaxRequests == 2
MaxAccounts == 2
MaxFiles == 2
MaxImageId == 6
ClockStep == 12
MaxNow == 36
MaxPushed == 2
NumRespondUsers == 3
MaxProposals == 2
MaxCandidates == 8
MaxNotifications == 5
MaxVisitCount == 2
MaxDay == 1
MaxMessages == 1
MaxSessions == 2
MaxLikes == 52

(* --------------------------- program constants ------------------------- *)
MAX_CONTENT_LENGTH == 2000
FAME_CAP == 500
MISSING_DISTANCE == 99990
MAX_LIMIT == 50
JWT_EXPIRATION_HOURS == 24
MAX_IMAGES_PER_USER == 5
VERIFICATION_HOURS == 24
RESET_HOURS == 1
MIN_PASSWORD_LENGTH == 8
DEFAULT_MESSAGE_LIMIT == 50
MAX_MESSAGE_LIMIT == 100
METRES_PER_DEGREE == 111195

(* SQL NULL / Python None: of a text column, and of a number (numbers are >= 0) *)
NULL == "NULL"
None == 0 - 1
NoBody == <<>>

VARIABLES
  users,            \* users table: id -> row
  images,           \* images table: set of rows
  images_id_seq,    \* next id the images table hands out
  likes,            \* likes table: set of <<liker_id, liked_id>>
  blocks,           \* blocks table: set of <<blocker_id, blocked_id>>
  visits,           \* visits table: set of rows
  notifications,    \* notifications table: bag of rows
  messages,         \* messages table: sequence of rows, id = position
  user_tags,        \* user_tags table: set of <<user_id, tag_id>>
  connected_users,  \* socket session registry: sid -> user_id
  today,            \* CURRENT_DATE of the database server
  resp,             \* answer to the last completed request
  reports,          \* reports table: set of <<reporter_id, reported_id>>
  date_proposals,   \* date_proposals table: sequence of rows, id = position
  rooms,            \* socket rooms: set of <<user_id, sid>>, room user_<user_id>
  emitted,          \* 'notification' events handed to socketio.emit
  pushing,          \* send_notification calls between their commit and their emit
  tokens,           \* tokens table: set of rows
  issued,           \* tokens handed to clients: JWTs, mailed secrets
  now,              \* the clock, in hours
  running           \* requests being handled at once: id -> where they are

vars == <<users, images, images_id_seq, likes, blocks, visits, notifications, messages,
          user_tags, connected_users, today, resp, reports, date_proposals,
          rooms, emitted, pushing, tokens, issued, now, running>>

auth == <<tokens, issued, now>>
push == <<emitted, pushing>>

Min(a, b) == IF a <= b THEN a ELSE b

(* Ids a request may name: every registered id and one that is not. *)
UserIds == (DOMAIN users) \cup {Cardinality(DOMAIN users) + 1}

Response(status) == [status |-> status, event |-> "", users |-> <<>>, total |-> 0, pages |-> 0, proposals |-> <<>>]
SocketEvent(name) == [status |-> 0, event |-> name, users |-> <<>>, total |-> 0, pages |-> 0, proposals |-> <<>>]

(* ------------------------------ queries -------------------------------- *)

(* SELECT id FROM blocks WHERE (a blocks b) OR (b blocks a) *)
is_blocked(db_blocks, user_id_1, user_id_2) ==
  (<<user_id_1, user_id_2>> \in db_blocks) \/ (<<user_id_2, user_id_1>> \in db_blocks)

blocked_by_me(db_blocks, current_user_id, target_user_id) ==
  <<current_user_id, target_user_id>> \in db_blocks

(* users.py: SELECT id FROM blocks WHERE (me -> them) OR (them -> me) *)
blocked(db_blocks, current_user_id, target_user_id) ==
  \/ <<current_user_id, target_user_id>> \in db_blocks
  \/ <<target_user_id, current_user_id>> \in db_blocks

are_connected_one_way(db_likes, user_id_1, user_id_2) ==
  <<user_id_1, user_id_2>> \in db_likes

(* both like rows exist *)
are_connected(db_likes, user_id_1, user_id_2) ==
  (<<user_id_1, user_id_2>> \in db_likes) /\ (<<user_id_2, user_id_1>> \in db_likes)

user_images_of_anyone(u) == images

(* SELECT id FROM images WHERE user_id = %s LIMIT 1 *)
user_images(u) == {img \in images : img.user_id = u}

(* -------------------------------- fame --------------------------------- *)

(* round(x, 2) of a value given in thousandths; the result is in hundredths *)
round2(thousandths) == (thousandths + 5) \div 10

calculate_fame_rating_uncapped(db_likes, user_id) ==
  round2(Cardinality({l \in db_likes : l[2] = user_id}) * 100)

(* rating = min(5.0, likes / 10.0); return round(rating, 2) *)
calculate_fame_rating(db_likes, user_id) ==
  LET count == Cardinality({l \in db_likes : l[2] = user_id})
      rating == Min(FAME_CAP * 10, count * 100)
  IN  round2(rating)

(* UPDATE users SET fame_rating = rating WHERE id = user_id *)
update_user_fame(db_users, db_likes, user_id) ==
  IF user_id \in DOMAIN db_users
    THEN [db_users EXCEPT ![user_id].fame_rating = calculate_fame_rating(db_likes, user_id)]
    ELSE db_users

(* ---------------------------- notifications ---------------------------- *)

Notification(user_id, notif_type, source_user_id) ==
  [user_id |-> user_id, type |-> notif_type, source_user_id |-> source_user_id]

(* INSERT INTO notifications (user_id, type, source_user_id) *)
send_notification(db_notifications, user_id, notif_type, source_user_id) ==
  db_notifications (+) SetToBag({Notification(user_id, notif_type, source_user_id)})

(* socketio.emit('notification', {type, from_user_id, message}, room=user_<id>) *)
Event(user_id, notif_type, source_user_id) ==
  [room |-> user_id, type |-> notif_type, from_user_id |-> source_user_id]

(* The events of the send_notification calls that added the rows after \ before. *)
Pushed(before, after) ==
  {Event(n.user_id, n.type, n.source_user_id) : n \in BagToSet(after (-) before)}

NotificationCount == BagCardinality(notifications)

(* The log is unbounded; a request is taken only while its rows still fit. *)
NotificationRoom(rows) == NotificationCount + rows <= MaxNotifications

(* ------------------------------ toggle_like ---------------------------- *)

like_notifications_one_match(db_notifications, current_user_id, target_user_id, liked_by_them) ==
  LET liked == send_notification(db_notifications, target_user_id, "like", current_user_id)
  IN  IF liked_by_them
        THEN send_notification(liked, target_user_id, "match", current_user_id)
        ELSE liked

(* after a like is inserted: one 'like' row, and on a mutual like a 'match' *)
(* row for each side                                                        *)
like_notifications(db_notifications, current_user_id, target_user_id, liked_by_them) ==
  LET liked == send_notification(db_notifications, target_user_id, "like", current_user_id)
  IN  IF liked_by_them
        THEN send_notification(
               send_notification(liked, target_user_id, "match", current_user_id),
               current_user_id, "match", target_user_id)
        ELSE liked

unlike_notifications_always(db_notifications, current_user_id, target_user_id, liked_by_them) ==
  send_notification(db_notifications, target_user_id, "unlike", current_user_id)

(* after a like is deleted: an 'unlike' row only if the pair was connected *)
unlike_notifications(db_notifications, current_user_id, target_user_id, liked_by_them) ==
  IF liked_by_them
    THEN send_notification(db_notifications, target_user_id, "unlike", current_user_id)
    ELSE db_notifications

existing_like_never(db_likes, liker_id, liked_id) == FALSE

(* SELECT id FROM likes WHERE liker_id = %s AND liked_id = %s *)
existing_like(db_likes, liker_id, liked_id) == <<liker_id, liked_id>> \in db_likes

(* request bodies: {"like": true}, {"like": false}, and one without the field *)
LikeBodies == {<<TRUE>>, <<FALSE>>, NoBody}

toggle_like(current_user_id, target_user_id, data) ==
  LET currently_liked == existing_like(likes, current_user_id, target_user_id)
      liked_by_them == existing_like(likes, target_user_id, current_user_id)
      inserted == likes \cup {<<current_user_id, target_user_id>>}
      deleted == likes \ {<<current_user_id, target_user_id>>}
  IN
  /\ UNCHANGED <<images, images_id_seq, blocks, visits, messages, user_tags, connected_users, today>>
  /\ UNCHANGED <<running, reports, date_proposals, rooms, pushing, auth>>
  /\ \/ /\ current_user_id = target_user_id
        /\ resp' = Response(400)
        /\ UNCHANGED <<users, likes, notifications>>
     \/ /\ current_user_id # target_user_id
        /\ data = NoBody
        /\ resp' = Response(400)
        /\ UNCHANGED <<users, likes, notifications>>
     \/ /\ current_user_id # target_user_id
        /\ data # NoBody
        /\ target_user_id \notin DOMAIN users
        /\ resp' = Response(404)
        /\ UNCHANGED <<users, likes, notifications>>
     \/ /\ current_user_id # target_user_id
        /\ data # NoBody
        /\ target_user_id \in DOMAIN users
        /\ blocked(blocks, current_user_id, target_user_id)
        /\ resp' = Response(403)
        /\ UNCHANGED <<users, likes, notifications>>
     \/ /\ current_user_id # target_user_id
        /\ data # NoBody
        /\ target_user_id \in DOMAIN users
        /\ ~blocked(blocks, current_user_id, target_user_id)
        /\ user_images(current_user_id) = {}
        /\ data = <<TRUE>>
        /\ resp' = Response(403)
        /\ UNCHANGED <<users, likes, notifications>>
     \/ /\ current_user_id # target_user_id
        /\ target_user_id \in DOMAIN users
        /\ ~blocked(blocks, current_user_id, target_user_id)
        /\ user_images(current_user_id) # {}
        /\ data = <<TRUE>>
        /\ IF currently_liked
             THEN /\ resp' = Response(200)
                  /\ UNCHANGED <<users, likes, notifications>>
             ELSE /\ NotificationRoom(IF liked_by_them THEN 3 ELSE 1)
                  /\ likes' = inserted
                  /\ users' = update_user_fame(users, inserted, target_user_id)
                  /\ notifications' = like_notifications(notifications, current_user_id,
                                                          target_user_id, liked_by_them)
                  /\ resp' = Response(200)
     \/ /\ current_user_id # target_user_id
        /\ target_user_id \in DOMAIN users
        /\ ~blocked(blocks, current_user_id, target_user_id)
        /\ data = <<FALSE>>
        /\ IF ~currently_liked
             THEN /\ resp' = Response(200)
                  /\ UNCHANGED <<users, likes, notifications>>
             ELSE /\ NotificationRoom(IF liked_by_them THEN 1 ELSE 0)
                  /\ likes' = deleted
                  /\ users' = update_user_fame(users, deleted, target_user_id)
                  /\ notifications' = unlike_notifications(notifications, current_user_id,
                                                            target_user_id, liked_by_them)
                  /\ resp' = Response(200)
  /\ emitted' = emitted \cup Pushed(notifications, notifications')

ToggleLike ==
  \E current_user_id \in DOMAIN users, target_user_id \in UserIds, data \in LikeBodies :
    toggle_like(current_user_id, target_user_id, data)

(* ------------------------------ block_user ----------------------------- *)

remove_likes_from_me(db_likes, current_user_id, target_user_id) ==
  db_likes \ {<<current_user_id, target_user_id>>}

(* DELETE the like from me to them, then the like from them to me *)
remove_likes_between(db_likes, current_user_id, target_user_id) ==
  (db_likes \ {<<current_user_id, target_user_id>>}) \ {<<target_user_id, current_user_id>>}

block_user(current_user_id, target_user_id) ==
  /\ UNCHANGED <<users, images, images_id_seq, visits, notifications, messages, user_tags,
                 connected_users, today>>
  /\ UNCHANGED <<running, reports, date_proposals, rooms, push, auth>>
  /\ \/ /\ current_user_id = target_user_id
        /\ resp' = Response(400)
        /\ UNCHANGED <<likes, blocks>>
     \/ /\ current_user_id # target_user_id
        /\ target_user_id \notin DOMAIN users
        /\ resp' = Response(404)
        /\ UNCHANGED <<likes, blocks>>
     \/ /\ current_user_id # target_user_id
        /\ target_user_id \in DOMAIN users
        /\ <<current_user_id, target_user_id>> \in blocks
        /\ resp' = Response(200)
        /\ UNCHANGED <<likes, blocks>>
     \/ /\ current_user_id # target_user_id
        /\ target_user_id \in DOMAIN users
        /\ <<current_user_id, target_user_id>> \notin blocks
        /\ blocks' = blocks \cup {<<current_user_id, target_user_id>>}
        /\ likes' = remove_likes_between(likes, current_user_id, target_user_id)
        /\ resp' = Response(200)

BlockUser ==
  \E current_user_id \in DOMAIN users, target_user_id \in UserIds :
    block_user(current_user_id, target_user_id)

(* ------------------------------ report_user ---------------------------- *)

report_user_unchecked(current_user_id, target_user_id) ==
  /\ UNCHANGED <<users, images, images_id_seq, likes, blocks, visits, notifications, messages,
                 user_tags, connected_users, today>>
  /\ UNCHANGED <<running, date_proposals, rooms, push, auth>>
  /\ reports' = reports \cup {<<current_user_id, target_user_id>>}
  /\ resp' = Response(200)

report_user(current_user_id, target_user_id) ==
  /\ UNCHANGED <<users, images, images_id_seq, likes, blocks, visits, notifications, messages,
                 user_tags, connected_users, today>>
  /\ UNCHANGED <<running, date_proposals, rooms, push, auth>>
  /\ \/ /\ current_user_id = target_user_id
        /\ resp' = Response(400)
        /\ UNCHANGED reports
     \/ /\ current_user_id # target_user_id
        /\ target_user_id \notin DOMAIN users
        /\ resp' = Response(404)
        /\ UNCHANGED reports
     \/ /\ current_user_id # target_user_id
        /\ target_user_id \in DOMAIN users
        /\ <<current_user_id, target_user_id>> \in reports
        /\ resp' = Response(200)
        /\ UNCHANGED reports
     \/ /\ current_user_id # target_user_id
        /\ target_user_id \in DOMAIN users
        /\ <<current_user_id, target_user_id>> \notin reports
        /\ reports' = reports \cup {<<current_user_id, target_user_id>>}
        /\ resp' = Response(200)

ReportUser ==
  \E current_user_id \in DOMAIN users, target_user_id \in UserIds :
    report_user(current_user_id, target_user_id)

(* --------------------------- view_user_profile ------------------------- *)

Visit(visitor_id, visited_id, day, visit_count) ==
  [visitor_id |-> visitor_id, visited_id |-> visited_id, day |-> day,
   visit_count |-> visit_count]

existing_visit_any_day(visitor_id, visited_id) ==
  {v \in visits : v.visitor_id = visitor_id /\ v.visited_id = visited_id}

(* SELECT ... FROM visits WHERE visitor, visited AND DATE(timestamp) = CURRENT_DATE *)
existing_visit(visitor_id, visited_id) ==
  {v \in visits : v.visitor_id = visitor_id /\ v.visited_id = visited_id /\ v.day = today}

view_user_profile(current_user_id, target_user_id) ==
  /\ UNCHANGED <<users, images, images_id_seq, likes, blocks, messages, user_tags,
                 connected_users, today>>
  /\ UNCHANGED <<running, reports, date_proposals, rooms, pushing, auth>>
  /\ \/ /\ current_user_id = target_user_id
        /\ resp' = Response(400)
        /\ UNCHANGED <<visits, notifications>>
     \/ /\ current_user_id # target_user_id
        /\ target_user_id \notin DOMAIN users
        /\ resp' = Response(404)
        /\ UNCHANGED <<visits, notifications>>
     \/ /\ current_user_id # target_user_id
        /\ target_user_id \in DOMAIN users
        /\ blocked(blocks, current_user_id, target_user_id)
        /\ resp' = Response(403)
        /\ UNCHANGED <<visits, notifications>>
     \/ /\ current_user_id # target_user_id
        /\ target_user_id \in DOMAIN users
        /\ ~blocked(blocks, current_user_id, target_user_id)
        /\ existing_visit(current_user_id, target_user_id) # {}
        /\ LET row == CHOOSE v \in existing_visit(current_user_id, target_user_id) : TRUE
           IN  /\ row.visit_count < MaxVisitCount
               /\ visits' = (visits \ {row}) \cup
                              {[row EXCEPT !.visit_count = row.visit_count + 1, !.day = today]}
        /\ UNCHANGED notifications
        /\ resp' = Response(200)
     \/ /\ current_user_id # target_user_id
        /\ target_user_id \in DOMAIN users
        /\ ~blocked(blocks, current_user_id, target_user_id)
        /\ existing_visit(current_user_id, target_user_id) = {}
        /\ NotificationRoom(1)
        /\ visits' = visits \cup {Visit(current_user_id, target_user_id, today, 1)}
        /\ notifications' = send_notification(notifications, target_user_id, "visit", current_user_id)
        /\ resp' = Response(200)
  /\ emitted' = emitted \cup Pushed(notifications, notifications')

ViewUserProfile ==
  \E current_user_id \in DOMAIN users, target_user_id \in UserIds :
    view_user_profile(current_user_id, target_user_id)

(* The database server's date moves on. *)
NextDay ==
  /\ today < MaxDay
  /\ today' = today + 1
  /\ UNCHANGED <<users, images, images_id_seq, likes, blocks, visits, notifications, messages,
                 user_tags, connected_users, resp>>
  /\ UNCHANGED <<running, reports, date_proposals, rooms, push, auth>>

(* ------------------------------ delete_image -------------------------- *)

delete_image(current_user_id, image_id) ==
  LET image == {img \in images : img.id = image_id /\ img.user_id = current_user_id} IN
  /\ UNCHANGED <<users, likes, blocks, visits, notifications, messages, user_tags,
                 connected_users, today, images_id_seq>>
  /\ UNCHANGED <<running, reports, date_proposals, rooms, push, auth>>
  /\ \/ /\ image = {}
        /\ resp' = Response(404)
        /\ UNCHANGED images
     \/ /\ image # {}
        /\ images' = images \ image
        /\ resp' = Response(200)

(* Ids a request can name: those of the rows, and ids of no row. *)
ImageIds == UserIds \cup {img.id : img \in images} \cup {images_id_seq}

DeleteImage ==
  \E current_user_id \in DOMAIN users, image_id \in ImageIds :
    delete_image(current_user_id, image_id)

(* ------------------------------ send_message --------------------------- *)

Message(sender_id, receiver_id, content) ==
  [sender_id |-> sender_id, receiver_id |-> receiver_id, content |-> content,
   is_read |-> FALSE]

(* A message body is modelled by the length of its stripped content. *)
ContentLengths == {0, 1, MAX_CONTENT_LENGTH + 1}

MessageRoom == Len(messages) < MaxMessages /\ NotificationRoom(1)

(* REST: POST /api/chat/messages/<other_user_id> *)
send_message(current_user_id, other_user_id, content) ==
  /\ UNCHANGED <<users, images, images_id_seq, likes, blocks, visits, user_tags, connected_users, today>>
  /\ UNCHANGED <<running, reports, date_proposals, rooms, pushing, auth>>
  /\ \/ /\ content = 0
        /\ resp' = Response(400)
        /\ UNCHANGED <<messages, notifications>>
     \/ /\ content > MAX_CONTENT_LENGTH
        /\ resp' = Response(400)
        /\ UNCHANGED <<messages, notifications>>
     \/ /\ content \in 1..MAX_CONTENT_LENGTH
        /\ current_user_id = other_user_id
        /\ resp' = Response(400)
        /\ UNCHANGED <<messages, notifications>>
     \/ /\ content \in 1..MAX_CONTENT_LENGTH
        /\ current_user_id # other_user_id
        /\ other_user_id \notin DOMAIN users
        /\ resp' = Response(404)
        /\ UNCHANGED <<messages, notifications>>
     \/ /\ content \in 1..MAX_CONTENT_LENGTH
        /\ current_user_id # other_user_id
        /\ other_user_id \in DOMAIN users
        /\ ~are_connected(likes, current_user_id, other_user_id)
        /\ resp' = Response(403)
        /\ UNCHANGED <<messages, notifications>>
     \/ /\ content \in 1..MAX_CONTENT_LENGTH
        /\ current_user_id # other_user_id
        /\ other_user_id \in DOMAIN users
        /\ are_connected(likes, current_user_id, other_user_id)
        /\ is_blocked(blocks, current_user_id, other_user_id)
        /\ resp' = Response(403)
        /\ UNCHANGED <<messages, notifications>>
     \/ /\ content \in 1..MAX_CONTENT_LENGTH
        /\ current_user_id # other_user_id
        /\ other_user_id \in DOMAIN users
        /\ are_connected(likes, current_user_id, other_user_id)
        /\ ~is_blocked(blocks, current_user_id, other_user_id)
        /\ MessageRoom
        /\ messages' = Append(messages, Message(current_user_id, other_user_id, content))
        /\ notifications' = send_notification(notifications, other_user_id, "message", current_user_id)
        /\ resp' = Response(201)
  /\ emitted' = emitted \cup Pushed(notifications, notifications')

SendMessage ==
  \E current_user_id \in DOMAIN users, other_user_id \in UserIds, content \in ContentLengths :
    send_message(current_user_id, other_user_id, content)

(* ------------------------------ socket events -------------------------- *)

Sids == 1..MaxSessions

(* A JWT <<user_id, signature, exp>>: the signature is the server's or not,  *)
(* exp is the hour it expires.  A request may also carry no token.          *)
NoToken == <<>>
Jwt(user_id, signature, exp) == <<user_id, signature, exp>>
Tokens ==
  {NoToken} \cup {Jwt(u, ok, exp) : u \in DOMAIN users, ok \in {"valid", "invalid"},
                                     exp \in {now, now + JWT_EXPIRATION_HOURS}}

(* payload = {'user_id': ..., 'exp': now + JWT_EXPIRATION_HOURS} *)
generate_token(user_id) == Jwt(user_id, "valid", now + JWT_EXPIRATION_HOURS)

(* jwt.decode: the payload <<user_id, exp>>, or None (the empty tuple) for *)
(* an expired or forged token                                               *)
decode_token(token) ==
  IF token[2] = "valid" /\ token[3] > now THEN <<token[1], token[3]>> ELSE <<>>

(* join_room(f'user_{user_id}') for the session of this request *)
join_room(db_rooms, user_id, sid) == db_rooms \cup {<<user_id, sid>>}

handle_connect(sid, token) ==
  /\ sid \notin DOMAIN connected_users
  /\ UNCHANGED <<users, images, images_id_seq, likes, blocks, visits, notifications, messages,
                 user_tags, today>>
  /\ UNCHANGED <<running, reports, date_proposals, push, auth>>
  /\ \/ /\ token = NoToken
        /\ resp' = SocketEvent("refused")
        /\ UNCHANGED <<connected_users, rooms>>
     \/ /\ token # NoToken
        /\ decode_token(token) = <<>>
        /\ resp' = SocketEvent("refused")
        /\ UNCHANGED <<connected_users, rooms>>
     \/ /\ token # NoToken
        /\ decode_token(token) # <<>>
        /\ rooms' = join_room(rooms, decode_token(token)[1], sid)
        /\ connected_users' = connected_users @@ (sid :> decode_token(token)[1])
        /\ resp' = SocketEvent("connected")

HandleConnect == \E sid \in Sids, token \in Tokens : handle_connect(sid, token)

pop_user(registry, sid) ==
  LET user_id == IF sid \in DOMAIN registry THEN registry[sid] ELSE 0
  IN  [s \in {x \in DOMAIN registry : registry[x] # user_id} |-> registry[s]]

(* connected_users.pop(request.sid, None) *)
pop(registry, sid) == [s \in (DOMAIN registry) \ {sid} |-> registry[s]]

(* The server takes a closed session out of every room it had joined. *)
handle_disconnect(sid) ==
  /\ connected_users' = pop(connected_users, sid)
  /\ rooms' = {r \in rooms : r[2] # sid}
  /\ resp' = SocketEvent("disconnect")
  /\ UNCHANGED <<users, images, images_id_seq, likes, blocks, visits, notifications, messages,
                 user_tags, today>>
  /\ UNCHANGED <<running, reports, date_proposals, push, auth>>

HandleDisconnect == \E sid \in Sids : handle_disconnect(sid)

(* receiver_id 0 stands for a payload without receiver_id *)
ReceiverIds == {0} \cup UserIds

handle_send_message(sid, receiver_id, content) ==
  LET user_id == connected_users[sid] IN
  /\ UNCHANGED <<users, images, images_id_seq, likes, blocks, visits, user_tags, connected_users, today>>
  /\ UNCHANGED <<running, reports, date_proposals, rooms, pushing, auth>>
  /\ \/ /\ sid \notin DOMAIN connected_users
        /\ resp' = SocketEvent("error")
        /\ UNCHANGED <<messages, notifications>>
     \/ /\ sid \in DOMAIN connected_users
        /\ (receiver_id = 0 \/ content = 0)
        /\ resp' = SocketEvent("error")
        /\ UNCHANGED <<messages, notifications>>
     \/ /\ sid \in DOMAIN connected_users
        /\ receiver_id # 0
        /\ content > MAX_CONTENT_LENGTH
        /\ resp' = SocketEvent("error")
        /\ UNCHANGED <<messages, notifications>>
     \/ /\ sid \in DOMAIN connected_users
        /\ receiver_id # 0
        /\ content \in 1..MAX_CONTENT_LENGTH
        /\ ~(<<user_id, receiver_id>> \in likes /\ <<receiver_id, user_id>> \in likes)
        /\ resp' = SocketEvent("error")
        /\ UNCHANGED <<messages, notifications>>
     \/ /\ sid \in DOMAIN connected_users
        /\ receiver_id # 0
        /\ content \in 1..MAX_CONTENT_LENGTH
        /\ <<user_id, receiver_id>> \in likes
        /\ <<receiver_id, user_id>> \in likes
        /\ (<<user_id, receiver_id>> \in blocks \/ <<receiver_id, user_id>> \in blocks)
        /\ resp' = SocketEvent("error")
        /\ UNCHANGED <<messages, notifications>>
     \/ /\ sid \in DOMAIN connected_users
        /\ receiver_id # 0
        /\ content \in 1..MAX_CONTENT_LENGTH
        /\ <<user_id, receiver_id>> \in likes
        /\ <<receiver_id, user_id>> \in likes
        /\ ~(<<user_id, receiver_id>> \in blocks \/ <<receiver_id, user_id>> \in blocks)
        /\ MessageRoom
        /\ messages' = Append(messages, Message(user_id, receiver_id, content))
        /\ notifications' = send_notification(notifications, receiver_id, "message", user_id)
        /\ resp' = SocketEvent("message_sent")
  /\ emitted' = emitted \cup Pushed(notifications, notifications')

HandleSendMessage ==
  \E sid \in Sids, receiver_id \in ReceiverIds, content \in ContentLengths :
    handle_send_message(sid, receiver_id, content)

(* --------------------------- send_notification ------------------------- *)

NotificationTypes == {"like", "visit", "message", "match", "unlike"}

Raised == [Response(0) EXCEPT !.event = "exception"]

reaches_emit_always(calls, row, committed) == calls \cup {row}

(* The call reaches socketio.emit only if the with block was left without  *)
(* an exception, which is after the commit.                                 *)
reaches_emit(calls, row, committed) == IF committed THEN calls \cup {row} ELSE calls

(* The with block of send_notification: INSERT, SELECT first_name, commit. *)
(* A statement or the commit may fail; the connection is then rolled back   *)
(* and the exception leaves the function.                                   *)
send_notification_insert(user_id, notif_type, source_user_id, committed) ==
  LET row == Notification(user_id, notif_type, source_user_id) IN
  /\ UNCHANGED <<users, images, images_id_seq, likes, blocks, visits, messages, user_tags,
                 connected_users, today>>
  /\ UNCHANGED <<running, reports, date_proposals, rooms, emitted, auth>>
  /\ pushing' = reaches_emit(pushing, row, committed)
  /\ IF committed
       THEN /\ NotificationCount < MaxPushed
            /\ notifications' = send_notification(notifications, user_id, notif_type,
                                                  source_user_id)
            /\ UNCHANGED resp
       ELSE /\ UNCHANGED notifications
            /\ resp' = Raised

(* The callers name two different accounts. *)
SendNotificationInsert ==
  \E user_id \in DOMAIN users, source_user_id \in DOMAIN users,
     notif_type \in NotificationTypes, committed \in BOOLEAN :
    /\ user_id # source_user_id
    /\ send_notification_insert(user_id, notif_type, source_user_id, committed)

(* socketio.emit('notification', ..., room=f'user_{user_id}') and return *)
send_notification_emit(row) ==
  /\ row \in pushing
  /\ pushing' = pushing \ {row}
  /\ emitted' = emitted \cup {Event(row.user_id, row.type, row.source_user_id)}
  /\ resp' = SocketEvent("notification")
  /\ UNCHANGED <<users, images, images_id_seq, likes, blocks, visits, notifications, messages,
                 user_tags, connected_users, today>>
  /\ UNCHANGED <<running, reports, date_proposals, rooms, auth>>

SendNotificationEmit == \E row \in pushing : send_notification_emit(row)

(* ----------------------------- date proposals -------------------------- *)

(* INSERT INTO date_proposals (sender_id, receiver_id, date_time, location, *)
(* activity): the status column takes its default, which the handler        *)
(* reports as 'pending'                                                      *)
DateProposal(sender_id, receiver_id) ==
  [sender_id |-> sender_id, receiver_id |-> receiver_id, status |-> "pending"]

(* The body is well formed (the three fields, a future ISO date, lengths    *)
(* within 255 and 100) or it is not.                                        *)
DateBodies == {"valid", "invalid"}

propose_date(current_user_id, other_user_id, data) ==
  /\ UNCHANGED <<users, images, images_id_seq, likes, blocks, visits, messages, user_tags,
                 connected_users, today>>
  /\ UNCHANGED <<running, reports, rooms, pushing, auth>>
  /\ \/ /\ data = "invalid"
        /\ resp' = Response(400)
        /\ UNCHANGED <<date_proposals, notifications>>
     \/ /\ data = "valid"
        /\ current_user_id = other_user_id
        /\ resp' = Response(400)
        /\ UNCHANGED <<date_proposals, notifications>>
     \/ /\ data = "valid"
        /\ current_user_id # other_user_id
        /\ other_user_id \notin DOMAIN users
        /\ resp' = Response(404)
        /\ UNCHANGED <<date_proposals, notifications>>
     \/ /\ data = "valid"
        /\ current_user_id # other_user_id
        /\ other_user_id \in DOMAIN users
        /\ ~are_connected(likes, current_user_id, other_user_id)
        /\ resp' = Response(403)
        /\ UNCHANGED <<date_proposals, notifications>>
     \/ /\ data = "valid"
        /\ current_user_id # other_user_id
        /\ other_user_id \in DOMAIN users
        /\ are_connected(likes, current_user_id, other_user_id)
        /\ is_blocked(blocks, current_user_id, other_user_id)
        /\ resp' = Response(403)
        /\ UNCHANGED <<date_proposals, notifications>>
     \/ /\ data = "valid"
        /\ current_user_id # other_user_id
        /\ other_user_id \in DOMAIN users
        /\ are_connected(likes, current_user_id, other_user_id)
        /\ ~is_blocked(blocks, current_user_id, other_user_id)
        /\ Len(date_proposals) < MaxProposals
        /\ NotificationRoom(1)
        /\ date_proposals' = Append(date_proposals,
                                    DateProposal(current_user_id, other_user_id))
        /\ notifications' = send_notification(notifications, other_user_id,
                                              "date_proposal", current_user_id)
        /\ resp' = Response(201)
  /\ emitted' = emitted \cup Pushed(notifications, notifications')

ProposeDate ==
  \E current_user_id \in DOMAIN users, other_user_id \in UserIds, data \in DateBodies :
    propose_date(current_user_id, other_user_id, data)

(* request bodies: the two answers, another word, and one without status *)
RespondBodies == {<<"accepted">>, <<"declined">>, <<"maybe">>, NoBody}

is_party(proposal, current_user_id) ==
  proposal.receiver_id = current_user_id \/ proposal.sender_id = current_user_id

(* proposal['receiver_id'] != current_user_id answers 403 *)
is_receiver(proposal, current_user_id) == proposal.receiver_id = current_user_id

(* proposal ids a request may name: every stored id and one that is not *)
ProposalIds == 1..(Len(date_proposals) + 1)

respond_to_date(current_user_id, proposal_id, data) ==
  /\ UNCHANGED <<users, images, images_id_seq, likes, blocks, visits, messages, user_tags,
                 connected_users, today>>
  /\ UNCHANGED <<running, reports, rooms, pushing, auth>>
  /\ \/ /\ data \notin {<<"accepted">>, <<"declined">>}
        /\ resp' = Response(400)
        /\ UNCHANGED <<date_proposals, notifications>>
     \/ /\ data \in {<<"accepted">>, <<"declined">>}
        /\ proposal_id \notin DOMAIN date_proposals
        /\ resp' = Response(404)
        /\ UNCHANGED <<date_proposals, notifications>>
     \/ /\ data \in {<<"accepted">>, <<"declined">>}
        /\ proposal_id \in DOMAIN date_proposals
        /\ ~is_receiver(date_proposals[proposal_id], current_user_id)
        /\ resp' = Response(403)
        /\ UNCHANGED <<date_proposals, notifications>>
     \/ /\ data \in {<<"accepted">>, <<"declined">>}
        /\ proposal_id \in DOMAIN date_proposals
        /\ is_receiver(date_proposals[proposal_id], current_user_id)
        /\ date_proposals[proposal_id].status # "pending"
        /\ resp' = Response(400)
        /\ UNCHANGED <<date_proposals, notifications>>
     \/ /\ data \in {<<"accepted">>, <<"declined">>}
        /\ proposal_id \in DOMAIN date_proposals
        /\ is_receiver(date_proposals[proposal_id], current_user_id)
        /\ date_proposals[proposal_id].status = "pending"
        /\ NotificationRoom(1)
        /\ date_proposals' = [date_proposals EXCEPT ![proposal_id].status = data[1]]
        /\ notifications' = send_notification(notifications,
                                              date_proposals[proposal_id].sender_id,
                                              IF data[1] = "accepted" THEN "date_accepted"
                                                                      ELSE "date_declined",
                                              current_user_id)
        /\ resp' = Response(200)
  /\ emitted' = emitted \cup Pushed(notifications, notifications')

RespondToDate ==
  \E current_user_id \in DOMAIN users, proposal_id \in ProposalIds, data \in RespondBodies :
    respond_to_date(current_user_id, proposal_id, data)

(* SELECT ... WHERE (sender = me AND receiver = them) OR (sender = them AND *)
(* receiver = me) ORDER BY created_at ASC, each row with its id             *)
proposals_between(current_user_id, other_user_id) ==
  LET between(i) ==
        \/ /\ date_proposals[i].sender_id = current_user_id
           /\ date_proposals[i].receiver_id = other_user_id
        \/ /\ date_proposals[i].sender_id = other_user_id
           /\ date_proposals[i].receiver_id = current_user_id
      ids == SelectSeq([i \in 1..Len(date_proposals) |-> i], between)
  IN  [i \in 1..Len(ids) |->
         [id |-> ids[i], sender_id |-> date_proposals[ids[i]].sender_id,
          receiver_id |-> date_proposals[ids[i]].receiver_id,
          status |-> date_proposals[ids[i]].status]]

get_date_proposals(current_user_id, other_user_id) ==
  /\ UNCHANGED <<users, images, images_id_seq, likes, blocks, visits, notifications, messages,
                 user_tags, connected_users, today>>
  /\ UNCHANGED <<running, reports, date_proposals, rooms, push, auth>>
  /\ \/ /\ ~are_connected(likes, current_user_id, other_user_id)
        /\ resp' = Response(403)
     \/ /\ are_connected(likes, current_user_id, other_user_id)
        /\ is_blocked(blocks, current_user_id, other_user_id)
        /\ resp' = Response(403)
     \/ /\ are_connected(likes, current_user_id, other_user_id)
        /\ ~is_blocked(blocks, current_user_id, other_user_id)
        /\ resp' = [Response(200) EXCEPT
                      !.proposals = proposals_between(current_user_id, other_user_id)]

GetDateProposals ==
  \E current_user_id \in DOMAIN users, other_user_id \in UserIds :
    get_date_proposals(current_user_id, other_user_id)

(* -------------------------------- browsing ----------------------------- *)

Abs(x) == IF x < 0 THEN 0 - x ELSE x

(* Python truthiness of an optional number: None and 0 are both false *)
Truthy(x) == x # None /\ x # 0

(* Haversine distance, in tenths of a kilometre as round(distance, 1) gives  *)
(* it.  A location is a whole degree of latitude on one meridian, where the  *)
(* formula reduces to 6371 * radians(|lat1 - lat2|).                         *)
calculate_distance_km(loc1, loc2) ==
  IF loc1 = None \/ loc2 = None
    THEN MISSING_DISTANCE
    ELSE (METRES_PER_DEGREE * Abs(loc1 - loc2) + 50) \div 100

(* The SQL fragment as a predicate on the candidate row u. *)
build_orientation_filter(my_gender, my_preference, u) ==
  LET opposite == IF my_gender = "Male" THEN "Female" ELSE "Male"
      preference == IF my_preference = NULL THEN "Bisexual" ELSE my_preference
      likes_opposite == u.sexual_preference \in {"Straight", "Bisexual", NULL}
      likes_same == u.sexual_preference \in {"Gay", "Bisexual", NULL}
  IN  IF my_gender = NULL THEN TRUE
      ELSE IF preference = "Straight" THEN u.gender = opposite /\ likes_opposite
      ELSE IF preference = "Gay" THEN u.gender = my_gender /\ likes_same
      ELSE \/ (u.gender = opposite /\ likes_opposite)
           \/ (u.gender = my_gender /\ likes_same)

(* SELECT COUNT of the self-join of user_tags on tag_id *)
count_common_tags(user_id_1, user_id_2) ==
  Cardinality({t \in {ut[2] : ut \in user_tags} :
                 <<user_id_1, t>> \in user_tags /\ <<user_id_2, t>> \in user_tags})

get_blocked_user_ids_by_me(db_blocks, user_id) ==
  {b[2] : b \in {r \in db_blocks : r[1] = user_id}}

get_blocked_user_ids(db_blocks, user_id) ==
  LET rows == {b \in db_blocks : b[1] = user_id \/ b[2] = user_id}
  IN  ({b[1] : b \in rows} \cup {b[2] : b \in rows}) \ {user_id}

apply_filters(us, min_age, max_age, max_distance, min_fame, max_fame) ==
  LET keep(user) ==
        /\ ~(Truthy(min_age) /\ Truthy(user.age) /\ user.age < min_age)
        /\ ~(Truthy(max_age) /\ Truthy(user.age) /\ user.age > max_age)
        /\ ~(Truthy(max_distance) /\ Truthy(user.distance_km)
               /\ user.distance_km > max_distance * 10)
        /\ ~(Truthy(min_fame) /\ Truthy(user.fame_rating) /\ user.fame_rating < min_fame)
        /\ ~(Truthy(max_fame) /\ Truthy(user.fame_rating) /\ user.fame_rating > max_fame)
  IN  SelectSeq(us, keep)

INFINITY == 1000000

sort_field(sort_by) ==
  CASE sort_by = "age" -> "age"
    [] sort_by = "fame_rating" -> "fame_rating"
    [] sort_by = "common_tags" -> "common_tags_count"
    [] OTHER -> "distance_km"

sort_key_always_inf(user, field, reverse) ==
  IF user[field] = None THEN INFINITY ELSE user[field]

(* float('inf') for a missing value, float('-inf') when the order is reversed *)
sort_key(user, field, reverse) ==
  IF user[field] = None
    THEN (IF reverse THEN 0 - INFINITY ELSE INFINITY)
    ELSE user[field]

(* sorted() is stable, also with reverse=True: x goes behind every element *)
(* that does not have to come after it.                                    *)
RECURSIVE insert_sorted(_, _, _, _)
insert_sorted(sorted, x, field, reverse) ==
  IF sorted = <<>> THEN <<x>>
  ELSE LET last == sorted[Len(sorted)]
           stays == IF reverse
                      THEN sort_key(last, field, reverse) >= sort_key(x, field, reverse)
                      ELSE sort_key(last, field, reverse) <= sort_key(x, field, reverse)
       IN  IF stays
             THEN Append(sorted, x)
             ELSE Append(insert_sorted(SubSeq(sorted, 1, Len(sorted) - 1), x, field, reverse),
                         last)

RECURSIVE sort_from(_, _, _, _)
sort_from(sorted, rest, field, reverse) ==
  IF rest = <<>> THEN sorted
  ELSE sort_from(insert_sorted(sorted, Head(rest), field, reverse), Tail(rest), field, reverse)

sort_users(us, sort_by, order) ==
  sort_from(<<>>, us, sort_field(sort_by), order = "desc")

(* One GET /api/browsing request: its query parameters.  gender NULL is     *)
(* browsing mode; a bound that is None was not supplied.                    *)
Query(gender, sort, order, min_age, max_age, max_distance, min_fame, max_fame, tags, page, limit) ==
  [gender |-> gender, sort |-> sort, order |-> order, min_age |-> min_age,
   max_age |-> max_age, max_distance |-> max_distance, min_fame |-> min_fame,
   max_fame |-> max_fame, tags |-> tags, page |-> page, limit |-> limit]

(* WHERE u.id != me AND u.is_verified = true {gender_sql_filter} ORDER BY u.id *)
all_users(current_user_id, q) ==
  LET me == users[current_user_id]
      gender_sql_filter(u) ==
        IF q.gender # NULL
          THEN (IF q.gender \in {"Male", "Female"} THEN u.gender = q.gender ELSE TRUE)
          ELSE build_orientation_filter(me.gender, me.sexual_preference, u)
      selected(id) ==
        /\ id \in DOMAIN users
        /\ id # current_user_id
        /\ users[id].is_verified
        /\ gender_sql_filter(users[id])
  IN  SelectSeq([i \in 1..Cardinality(DOMAIN users) |-> i], selected)

processed_users(current_user_id, q) ==
  LET blocked_ids == get_blocked_user_ids(blocks, current_user_id)
      kept(id) ==
        /\ id \notin blocked_ids
        /\ (q.tags # {} => \E t \in q.tags : <<id, t>> \in user_tags)
      ids == SelectSeq(all_users(current_user_id, q), kept)
  IN  [i \in 1..Len(ids) |->
         [id |-> ids[i],
          age |-> users[ids[i]].age,
          gender |-> users[ids[i]].gender,
          fame_rating |-> users[ids[i]].fame_rating,
          distance_km |-> calculate_distance_km(users[current_user_id].location,
                                                users[ids[i]].location),
          common_tags_count |-> count_common_tags(current_user_id, ids[i])]]

(* Python's a // b for b # 0: the floor of the quotient *)
floor_div(a, b) == IF b > 0 THEN a \div b ELSE (0 - a) \div (0 - b)

(* Python's seq[start:end]: a negative index counts from the end, and both *)
(* indices are clipped to the list                                          *)
slice(seq, start, end) ==
  LET n == Len(seq)
      clip(i) == IF i < 0 THEN (IF i + n < 0 THEN 0 ELSE i + n) ELSE Min(i, n)
  IN  IF clip(start) < clip(end) THEN SubSeq(seq, clip(start) + 1, clip(end)) ELSE <<>>

(* The steps 7 to 10; a limit of 0 raises ZeroDivisionError, which the      *)
(* handler's except clause answers with 500.                                *)
suggestions(current_user_id, q) ==
  LET limit == Min(q.limit, MAX_LIMIT)
      filtered_users == apply_filters(processed_users(current_user_id, q), q.min_age,
                                      q.max_age, q.max_distance, q.min_fame, q.max_fame)
      sorted_users == sort_users(filtered_users, q.sort, q.order)
      total == Len(sorted_users)
      start == (q.page - 1) * limit
      end == start + limit
      page_users == slice(sorted_users, start, end)
  IN  IF limit = 0
        THEN Response(500)
        ELSE [status |-> 200, event |-> IF q.gender # NULL THEN "search" ELSE "browsing",
              users |-> page_users, total |-> total,
              pages |-> floor_div(total + limit - 1, limit), proposals |-> <<>>]

get_suggestions(current_user_id, q) ==
  /\ resp' = suggestions(current_user_id, q)
  /\ UNCHANGED <<users, images, images_id_seq, likes, blocks, visits, notifications, messages,
                 user_tags, connected_users, today>>
  /\ UNCHANGED <<running, reports, date_proposals, rooms, push, auth>>

Queries ==
  {Query(gender, so[1], so[2], f[1], f[2], f[3], f[4], f[5], f[6], pl[1], pl[2]) :
     gender \in {NULL, "all", "Male", "Female"},
     so \in {<<"distance", "asc">>, <<"age", "desc">>},
     f \in {<<None, None, None, None, None, {}>>,
            <<18, 30, 150, None, None, {}>>,
            <<None, None, None, 100, 500, {1}>>},
     pl \in {<<1, 20>>, <<2, 1>>}}

GetSuggestions ==
  \E current_user_id \in DOMAIN users, q \in Queries : get_suggestions(current_user_id, q)

(* ------------------------------ initial state -------------------------- *)

(* A registered, verified account with nothing filled in. *)
NewUser == [is_verified |-> TRUE, gender |-> NULL, sexual_preference |-> NULL,
            age |-> None, fame_rating |-> 0, location |-> None, password_hash |-> 0]

Image(id, user_id, is_profile_pic) ==
  [id |-> id, user_id |-> user_id, is_profile_pic |-> is_profile_pic]

(* No report, date proposal, socket room, push or token yet. *)
NothingElse ==
  /\ reports = {}
  /\ date_proposals = <<>>
  /\ rooms = {}
  /\ emitted = {}
  /\ pushing = {}
  /\ tokens = {}
  /\ issued = {}
  /\ now = 0
  /\ images_id_seq = Cardinality(images) + 1
  /\ running = <<>>

(* n verified accounts, of which `owners` have uploaded one picture; no *)
(* social activity yet.                                                  *)
FreshDb(n, owners) ==
  /\ users = [u \in 1..n |-> NewUser]
  /\ images = {Image(u, u, FALSE) : u \in owners}
  /\ likes = {}
  /\ blocks = {}
  /\ visits = {}
  /\ notifications = EmptyBag
  /\ messages = <<>>
  /\ user_tags = {}
  /\ connected_users = [s \in {} |-> 0]
  /\ today = 0
  /\ resp = Response(0)
  /\ NothingElse

(* Likes, blocks, fame and their notifications: the last account has no picture. *)
Init == FreshDb(NumUsers, 1..(NumUsers - 1))

Next == ToggleLike \/ BlockUser

Spec == Init /\ [][Next]_vars

(* The photo requirement: accounts may delete their only picture. *)
PhotoInit == FreshDb(NumPhotoUsers, 1..NumPhotoUsers)

PhotoNext == ToggleLike \/ DeleteImage

PhotoSpec == PhotoInit /\ [][PhotoNext]_vars

(* The fame formula over a database populated with up to MaxLikes likes for *)
(* each of the accounts 1 and 2, given by the accounts 3, 4, ...            *)
FameTargets == {1, 2}

FameInit ==
  /\ users = [u \in 1..(MaxLikes + 2) |-> NewUser]
  /\ \E k \in 0..MaxLikes, m \in 0..MaxLikes :
       likes = {<<i, 1>> : i \in 3..(k + 2)} \cup {<<j, 2>> : j \in 3..(m + 2)}
  /\ images = {}
  /\ blocks = {}
  /\ visits = {}
  /\ notifications = EmptyBag
  /\ messages = <<>>
  /\ user_tags = {}
  /\ connected_users = [s \in {} |-> 0]
  /\ today = 0
  /\ resp = Response(0)
  /\ NothingElse

UpdateUserFame ==
  \E user_id \in FameTargets :
    /\ users' = update_user_fame(users, likes, user_id)
    /\ UNCHANGED <<images, images_id_seq, likes, blocks, visits, notifications, messages, user_tags,
                   connected_users, today, resp>>
    /\ UNCHANGED <<running, reports, date_proposals, rooms, push, auth>>

FameNext == UpdateUserFame

FameSpec == FameInit /\ [][FameNext]_vars

(* Profile visits over several days. *)
VisitInit == FreshDb(NumVisitUsers, 1..NumVisitUsers)

VisitNext == ViewUserProfile \/ ToggleLike \/ BlockUser \/ NextDay

VisitSpec == VisitInit /\ [][VisitNext]_vars

(* Chat over REST and over the socket. *)
ChatInit == FreshDb(NumChatUsers, 1..NumChatUsers)

ChatNext ==
  \/ SendMessage
  \/ HandleConnect
  \/ HandleDisconnect
  \/ HandleSendMessage
  \/ ToggleLike
  \/ BlockUser

ChatSpec == ChatInit /\ [][ChatNext]_vars

(* Browsing over a populated database: who is verified varies; gender,     *)
(* preference, age, fame, place and tags are given per account.              *)
SeedKinds == << <<"Male", "Straight">>, <<"Female", "Bisexual">>, <<NULL, NULL>>,
                <<"Male", "Gay">> >>
SeedAges == <<None, 20, 35, 28>>
SeedFame == <<0, 150, 500, 20>>
SeedLocations == <<0, 1, None, 3>>
SeedTags == {<<1, 1>>, <<2, 1>>, <<2, 2>>, <<3, 2>>, <<4, 1>>}

BrowseInit ==
  /\ \E verified \in [1..NumBrowseUsers -> BOOLEAN] :
       users = [u \in 1..NumBrowseUsers |->
                  [is_verified |-> verified[u], gender |-> SeedKinds[u][1],
                   sexual_preference |-> SeedKinds[u][2], age |-> SeedAges[u],
                   fame_rating |-> SeedFame[u], location |-> SeedLocations[u],
                   password_hash |-> 0]]
  /\ images = {}
  /\ likes = {}
  /\ blocks = {}
  /\ visits = {}
  /\ notifications = EmptyBag
  /\ messages = <<>>
  /\ user_tags = {ut \in SeedTags : ut[1] <= NumBrowseUsers}
  /\ connected_users = [s \in {} |-> 0]
  /\ today = 0
  /\ resp = Response(0)
  /\ NothingElse

BrowseNext == GetSuggestions \/ BlockUser

BrowseSpec == BrowseInit /\ [][BrowseNext]_vars

(* The orientation filter over every stored gender and preference. *)
Genders == {"Male", "Female", NULL}
Preferences == {"Straight", "Gay", "Bisexual", NULL}

OrientInit ==
  /\ \E gender \in [1..NumOrientUsers -> Genders],
        preference \in [1..NumOrientUsers -> Preferences] :
       users = [u \in 1..NumOrientUsers |->
                  [NewUser EXCEPT !.gender = gender[u],
                                  !.sexual_preference = preference[u]]]
  /\ images = {}
  /\ likes = {}
  /\ blocks = {}
  /\ visits = {}
  /\ notifications = EmptyBag
  /\ messages = <<>>
  /\ user_tags = {}
  /\ connected_users = [s \in {} |-> 0]
  /\ today = 0
  /\ resp = Response(0)
  /\ NothingElse

(* GET /api/browsing without parameters: browsing mode, the defaults *)
DefaultQuery == Query(NULL, "distance", "asc", None, None, None, None, None, {}, 1, 20)

Browse == \E current_user_id \in DOMAIN users : get_suggestions(current_user_id, DefaultQuery)

OrientNext == Browse

OrientSpec == OrientInit /\ [][OrientNext]_vars

(* Sorting: verified accounts whose age and fame vary; place and tags are   *)
(* those of the seeds.                                                       *)
SortAges == {None, 20, 35}
SortFame == {0, 150, 500}

SortInit ==
  /\ \E age \in [2..NumSortUsers -> SortAges], fame \in [2..NumSortUsers -> SortFame] :
       users = [u \in 1..NumSortUsers |->
                  IF u = 1
                    THEN [NewUser EXCEPT !.location = SeedLocations[1]]
                    ELSE [NewUser EXCEPT !.age = age[u], !.fame_rating = fame[u],
                                         !.location = SeedLocations[((u - 1) % 4) + 1]]]
  /\ images = {}
  /\ likes = {}
  /\ blocks = {}
  /\ visits = {}
  /\ notifications = EmptyBag
  /\ messages = <<>>
  /\ user_tags = {ut \in SeedTags : ut[1] <= NumSortUsers}
  /\ connected_users = [s \in {} |-> 0]
  /\ today = 0
  /\ resp = Response(0)
  /\ NothingElse

(* GET /api/browsing?gender=all&sort=..&order=.. *)
SortQueries ==
  {Query("all", sort, order, None, None, None, None, None, {}, 1, 20) :
     sort \in {"distance", "age", "fame_rating", "common_tags", "popularity"},
     order \in {"asc", "desc"}}

SortedSearch == \E q \in SortQueries : get_suggestions(1, q)

SortNext == SortedSearch

SortSpec == SortInit /\ [][SortNext]_vars

(* Pagination: account 1 searches among up to MaxCandidates verified        *)
(* accounts; the other accounts are not verified yet.                        *)
PageInit ==
  /\ \E n \in 0..MaxCandidates :
       users = [u \in 1..(MaxCandidates + 1) |->
                  [NewUser EXCEPT !.is_verified = (u <= n + 1)]]
  /\ images = {}
  /\ likes = {}
  /\ blocks = {}
  /\ visits = {}
  /\ notifications = EmptyBag
  /\ messages = <<>>
  /\ user_tags = {}
  /\ connected_users = [s \in {} |-> 0]
  /\ today = 0
  /\ resp = Response(0)
  /\ NothingElse

(* GET /api/browsing?gender=all&page=..&limit=.. : both are parsed as int *)
Pages == {0 - 1, 0, 1, 2, 3, 4}
Limits == {0 - 2, 0 - 1, 0, 1, 2, 3, 20, MAX_LIMIT + 10}

PageQueries ==
  {Query("all", "distance", "asc", None, None, None, None, None, {}, page, limit) :
     page \in Pages, limit \in Limits}

PagedSearch == \E q \in PageQueries : get_suggestions(1, q)

PageNext == PagedSearch

PageSpec == PageInit /\ [][PageNext]_vars

(* Date proposals: the accounts 1 and 2 come with a seeded mutual like.     *)
SeededMatch(n) ==
  /\ likes = {<<1, 2>>, <<2, 1>>}
  /\ users = [u \in 1..n |->
                [NewUser EXCEPT !.fame_rating = IF u \in {1, 2} THEN 10 ELSE 0]]
  /\ images = {Image(u, u, FALSE) : u \in 1..n}
  /\ blocks = {}
  /\ visits = {}
  /\ notifications = EmptyBag
  /\ messages = <<>>
  /\ user_tags = {}
  /\ connected_users = [s \in {} |-> 0]
  /\ today = 0
  /\ resp = Response(0)
  /\ NothingElse

DateInit == SeededMatch(NumDateUsers)

DateNext ==
  \/ ProposeDate
  \/ RespondToDate
  \/ GetDateProposals
  \/ ToggleLike
  \/ BlockUser

DateSpec == DateInit /\ [][DateNext]_vars

(* Answers to a proposal, with a third account that is no party to it. *)
RespondInit == SeededMatch(NumRespondUsers)

RespondNext == ProposeDate \/ RespondToDate

RespondSpec == RespondInit /\ [][RespondNext]_vars

(* send_notification step by step, while sessions come and go. *)
NotifyInit == FreshDb(NumNotifyUsers, 1..NumNotifyUsers)

NotifyNext ==
  \/ SendNotificationInsert
  \/ SendNotificationEmit
  \/ HandleConnect
  \/ HandleDisconnect

NotifySpec == NotifyInit /\ [][NotifyNext]_vars

(* ------------------------------ upload_image --------------------------- *)

(* An uploaded part: "" has no filename, "bad" fails the extension, MIME    *)
(* type or size test or cannot be saved, "ok" is stored.                    *)
FileKinds == {"", "bad", "ok"}

RECURSIVE SeqsUpTo(_, _)
SeqsUpTo(S, n) ==
  IF n = 0 THEN {<<>>}
           ELSE SeqsUpTo(S, n - 1) \cup {Append(q, x) : q \in SeqsUpTo(S, n - 1), x \in S}

Uploads == SeqsUpTo(FileKinds, MaxFiles)

image_count_none(user_id) == 0

(* SELECT COUNT of the images of the user *)
image_count(user_id) == Cardinality({img \in images : img.user_id = user_id})

upload_image(current_user_id, files) ==
  LET named == SelectSeq(files, LAMBDA f : f # "")
      stored == SelectSeq(named, LAMBDA f : f = "ok")
  IN
  /\ images_id_seq + Len(stored) - 1 <= MaxImageId
  /\ UNCHANGED <<users, likes, blocks, visits, notifications, messages, user_tags,
                 connected_users, today>>
  /\ UNCHANGED <<running, reports, date_proposals, rooms, push, auth>>
  /\ \/ /\ named = <<>>
        /\ resp' = Response(400)
        /\ UNCHANGED <<images, images_id_seq>>
     \/ /\ named # <<>>
        /\ image_count(current_user_id) + Len(named) > MAX_IMAGES_PER_USER
        /\ resp' = Response(400)
        /\ UNCHANGED <<images, images_id_seq>>
     \/ /\ named # <<>>
        /\ image_count(current_user_id) + Len(named) <= MAX_IMAGES_PER_USER
        /\ images' = images \cup {Image(images_id_seq + i - 1, current_user_id, FALSE) :
                                     i \in 1..Len(stored)}
        /\ images_id_seq' = images_id_seq + Len(stored)
        /\ resp' = Response(IF stored # <<>> THEN 201 ELSE 400)

UploadImage ==
  \E current_user_id \in DOMAIN users, files \in Uploads :
    upload_image(current_user_id, files)

(* --------------------------- set_profile_picture ----------------------- *)

keep_profile_pic(db_images, user_id) == db_images

(* UPDATE images SET is_profile_pic = FALSE WHERE user_id = %s *)
clear_profile_pic(db_images, user_id) ==
  {IF img.user_id = user_id THEN [img EXCEPT !.is_profile_pic = FALSE] ELSE img :
     img \in db_images}

(* UPDATE images SET is_profile_pic = TRUE WHERE id = %s *)
mark_profile_pic(db_images, image_id) ==
  {IF img.id = image_id THEN [img EXCEPT !.is_profile_pic = TRUE] ELSE img :
     img \in db_images}

set_profile_picture(current_user_id, image_id) ==
  LET image == {img \in images : img.id = image_id /\ img.user_id = current_user_id} IN
  /\ UNCHANGED <<users, likes, blocks, visits, notifications, messages, user_tags,
                 connected_users, today, images_id_seq>>
  /\ UNCHANGED <<running, reports, date_proposals, rooms, push, auth>>
  /\ \/ /\ image = {}
        /\ resp' = Response(404)
        /\ UNCHANGED images
     \/ /\ image # {}
        /\ images' = mark_profile_pic(clear_profile_pic(images, current_user_id), image_id)
        /\ resp' = Response(200)

SetProfilePicture ==
  \E current_user_id \in DOMAIN users, image_id \in ImageIds :
    set_profile_picture(current_user_id, image_id)

(* ----------------------------- google_callback ------------------------- *)

(* What Google's answer resolves to: nothing usable (no code, failed        *)
(* exchange, bad id token, no email), the google_id of an account, the      *)
(* email of an account, or a new identity whose picture is absent, can be   *)
(* fetched, or fails to download.                                            *)
Identities ==
  {<<"none">>} \cup {<<kind, u>> : kind \in {"google_id", "email"}, u \in DOMAIN users}
               \cup {<<"new", picture>> : picture \in {"", "ok", "fails"}}

google_callback(identity) ==
  LET user_id == IF identity[1] = "new" THEN Cardinality(DOMAIN users) + 1
                 ELSE IF identity[1] = "none" THEN 0 ELSE identity[2]
  IN
  /\ UNCHANGED <<likes, blocks, visits, notifications, messages, user_tags,
                 connected_users, today>>
  /\ UNCHANGED <<running, reports, date_proposals, rooms, push, tokens, now>>
  /\ \/ /\ identity[1] = "none"
        /\ resp' = Response(400)
        /\ UNCHANGED <<users, images, images_id_seq, issued>>
     \/ /\ identity[1] = "google_id"
        /\ UNCHANGED <<users, images, images_id_seq>>
        /\ issued' = issued \cup {generate_token(user_id)}
        /\ resp' = Response(200)
     \/ /\ identity[1] = "email"
        /\ users' = [users EXCEPT ![user_id].is_verified = TRUE]
        /\ UNCHANGED <<images, images_id_seq>>
        /\ issued' = issued \cup {generate_token(user_id)}
        /\ resp' = Response(200)
     \/ /\ identity[1] = "new"
        /\ Cardinality(DOMAIN users) < MaxAccounts
        /\ images_id_seq <= MaxImageId
        /\ users' = users @@ (user_id :> NewUser)
        /\ IF identity[2] = "ok"
             THEN /\ images' = images \cup {Image(images_id_seq, user_id, TRUE)}
                  /\ images_id_seq' = images_id_seq + 1
             ELSE UNCHANGED <<images, images_id_seq>>
        /\ issued' = issued \cup {generate_token(user_id)}
        /\ resp' = Response(200)

GoogleCallback == \E identity \in Identities : google_callback(identity)

(* ------------------------- get_messages, mark read --------------------- *)

mark_read_both_ways(db_messages, sender_id, receiver_id) ==
  [i \in DOMAIN db_messages |->
     IF {db_messages[i].sender_id, db_messages[i].receiver_id} = {sender_id, receiver_id}
       THEN [db_messages[i] EXCEPT !.is_read = TRUE]
       ELSE db_messages[i]]

(* UPDATE messages SET is_read = TRUE                                       *)
(* WHERE sender_id = %s AND receiver_id = %s AND is_read = FALSE            *)
mark_read(db_messages, sender_id, receiver_id) ==
  [i \in DOMAIN db_messages |->
     IF /\ db_messages[i].sender_id = sender_id
        /\ db_messages[i].receiver_id = receiver_id
        /\ ~db_messages[i].is_read
       THEN [db_messages[i] EXCEPT !.is_read = TRUE]
       ELSE db_messages[i]]

(* ids of the rows the SELECT of get_messages returns: the newest `limit`   *)
(* rows of the two accounts, below before_id when that is given and not 0   *)
history(db_messages, current_user_id, other_user_id, limit, before_id) ==
  LET between == {i \in DOMAIN db_messages :
                    /\ {db_messages[i].sender_id, db_messages[i].receiver_id}
                         = {current_user_id, other_user_id}
                    /\ (before_id \in {None, 0} \/ i < before_id)}
  IN  {i \in between : Cardinality({j \in between : j > i}) < limit}

MessageLimits == {0 - 1, 1, DEFAULT_MESSAGE_LIMIT, MAX_MESSAGE_LIMIT + 1}

(* before_id: absent, 0, or the id of the newest message *)
BeforeIds == {None, 0, Len(messages)}

get_messages(current_user_id, other_user_id, asked, before_id) ==
  LET limit == IF asked < MAX_MESSAGE_LIMIT THEN asked ELSE MAX_MESSAGE_LIMIT IN
  /\ UNCHANGED <<users, images, images_id_seq, likes, blocks, visits, notifications,
                 user_tags, connected_users, today>>
  /\ UNCHANGED <<running, reports, date_proposals, rooms, push, auth>>
  /\ \/ /\ ~are_connected(likes, current_user_id, other_user_id)
        /\ resp' = Response(403)
        /\ UNCHANGED messages
     \/ /\ are_connected(likes, current_user_id, other_user_id)
        /\ is_blocked(blocks, current_user_id, other_user_id)
        /\ resp' = Response(403)
        /\ UNCHANGED messages
     \/ /\ are_connected(likes, current_user_id, other_user_id)
        /\ ~is_blocked(blocks, current_user_id, other_user_id)
        /\ limit < 0
        /\ resp' = Response(500)
        /\ UNCHANGED messages
     \/ /\ are_connected(likes, current_user_id, other_user_id)
        /\ ~is_blocked(blocks, current_user_id, other_user_id)
        /\ limit >= 0
        /\ messages' = mark_read(messages, other_user_id, current_user_id)
        /\ resp' = [Response(200) EXCEPT
                      !.total = Cardinality(history(messages, current_user_id,
                                                    other_user_id, limit, before_id))]

GetMessages ==
  \E current_user_id \in DOMAIN users, other_user_id \in UserIds :
    \E asked \in MessageLimits, before_id \in BeforeIds :
      get_messages(current_user_id, other_user_id, asked, before_id)

mark_messages_read(current_user_id, other_user_id) ==
  /\ UNCHANGED <<users, images, images_id_seq, likes, blocks, visits, notifications,
                 user_tags, connected_users, today>>
  /\ UNCHANGED <<running, reports, date_proposals, rooms, push, auth>>
  /\ messages' = mark_read(messages, other_user_id, current_user_id)
  /\ resp' = [Response(200) EXCEPT
                !.total = Cardinality({i \in DOMAIN messages :
                                         messages'[i] # messages[i]})]

MarkMessagesRead ==
  \E current_user_id \in DOMAIN users, other_user_id \in UserIds :
    mark_messages_read(current_user_id, other_user_id)

(* ------------------------------ sessions ------------------------------- *)

(* INSERT INTO tokens (user_id, token, type, expires_at) *)
TokenRow(user_id, token, type, expires_at) ==
  [user_id |-> user_id, token |-> token, type |-> type, expires_at |-> expires_at]

(* SELECT id FROM tokens WHERE token = %s AND type = 'blacklist' *)
Blacklisted(token) ==
  \E row \in tokens : row.token = token /\ row.type = "blacklist"

verify_token_unlisted(token) == decode_token(token)

(* None (the empty tuple) for a token with a blacklist row that has not     *)
(* expired, else what jwt.decode gives                                       *)
verify_token(token) ==
  IF \E row \in tokens : /\ row.token = token
                         /\ row.type = "blacklist"
                         /\ row.expires_at > now
  THEN <<>>
  ELSE decode_token(token)

(* The payload handed to the route, or the empty tuple for a 401. *)
token_required(token) == IF token = NoToken THEN <<>> ELSE verify_token(token)

(* What a client can put in the Authorization header: nothing, a token this *)
(* server gave out, or one signed with another key.                         *)
Presented ==
  {NoToken} \cup issued
            \cup {Jwt(u, "invalid", now + JWT_EXPIRATION_HOURS) : u \in DOMAIN users}

(* A login body <<username, password is right>>; the account id stands for  *)
(* the username.  last_online is not part of the model.                     *)
LoginBodies == {NoBody} \cup {<<u, ok>> : u \in UserIds, ok \in BOOLEAN}

login(data) ==
  /\ UNCHANGED <<users, images, images_id_seq, likes, blocks, visits, notifications, messages,
                 user_tags, connected_users, today>>
  /\ UNCHANGED <<running, reports, date_proposals, rooms, push, tokens, now>>
  /\ \/ /\ data = NoBody
        /\ resp' = Response(400)
        /\ UNCHANGED issued
     \/ /\ data # NoBody
        /\ data[1] \notin DOMAIN users
        /\ resp' = Response(401)
        /\ UNCHANGED issued
     \/ /\ data # NoBody
        /\ data[1] \in DOMAIN users
        /\ ~users[data[1]].is_verified
        /\ resp' = Response(403)
        /\ UNCHANGED issued
     \/ /\ data # NoBody
        /\ data[1] \in DOMAIN users
        /\ users[data[1]].is_verified
        /\ ~data[2]
        /\ resp' = Response(401)
        /\ UNCHANGED issued
     \/ /\ data # NoBody
        /\ data[1] \in DOMAIN users
        /\ users[data[1]].is_verified
        /\ data[2]
        /\ issued' = issued \cup {generate_token(data[1])}
        /\ resp' = Response(200)

Login == \E data \in LoginBodies : login(data)

logout(token) ==
  /\ UNCHANGED <<users, images, images_id_seq, likes, blocks, visits, notifications, messages,
                 user_tags, connected_users, today>>
  /\ UNCHANGED <<running, reports, date_proposals, rooms, push, issued, now>>
  /\ LET verified == token_required(token)
         payload == IF token = NoToken THEN <<>> ELSE decode_token(token)
     IN  \/ /\ verified = <<>>
            /\ resp' = Response(401)
            /\ UNCHANGED tokens
         \/ /\ verified # <<>>
            /\ payload = <<>>
            /\ resp' = Response(401)
            /\ UNCHANGED tokens
         \/ /\ verified # <<>>
            /\ payload # <<>>
            /\ Blacklisted(token)
            /\ resp' = Response(200)
            /\ UNCHANGED tokens
         \/ /\ verified # <<>>
            /\ payload # <<>>
            /\ ~Blacklisted(token)
            /\ tokens' = tokens \cup {TokenRow(verified[1], token, "blacklist", payload[2])}
            /\ resp' = Response(200)

Logout == \E token \in Presented : logout(token)

(* SELECT COUNT of the caller's unread notifications; no request of the     *)
(* model marks a notification read.                                          *)
get_unread_count(token) ==
  /\ UNCHANGED <<users, images, images_id_seq, likes, blocks, visits, notifications, messages,
                 user_tags, connected_users, today>>
  /\ UNCHANGED <<running, reports, date_proposals, rooms, push, auth>>
  /\ LET verified == token_required(token)
     IN  \/ /\ verified = <<>>
            /\ resp' = Response(401)
         \/ /\ verified # <<>>
            /\ resp' = [Response(200) EXCEPT
                          !.total = BagCardinality(
                                      [row \in {r \in BagToSet(notifications) :
                                                  r.user_id = verified[1]}
                                         |-> notifications[row]])]

GetUnreadCount == \E token \in Presented : get_unread_count(token)

(* The clock moves on; tokens live JWT_EXPIRATION_HOURS hours. *)
Tick ==
  /\ now + ClockStep <= MaxNow
  /\ now' = now + ClockStep
  /\ UNCHANGED <<users, images, images_id_seq, likes, blocks, visits, notifications, messages,
                 user_tags, connected_users, today, resp>>
  /\ UNCHANGED <<running, reports, date_proposals, rooms, push, tokens, issued>>

(* --------------------- email verification, password reset -------------- *)

(* secrets.token_urlsafe(32): the n-th secret this server mailed; a string  *)
(* never drawn twice.  It is kept with the tokens handed out.               *)
Secret(n) == <<n, "urlsafe", 0>>
Secrets == {t \in issued : t[2] = "urlsafe"}
token_urlsafe == Secret(Cardinality(Secrets) + 1)

(* What a client can put in the link: a secret it was mailed, or another.   *)
Links == Secrets \cup {Secret(0)}

(* SELECT user_id, expires_at FROM tokens WHERE token = %s AND type = %s *)
token_data(token, type) == {row \in tokens : row.token = token /\ row.type = type}

(* A registration body: none or an invalid one, or the account it names     *)
(* (the account id stands for username and email).                          *)
RegisterBodies == {NoBody} \cup {<<u>> : u \in UserIds}

register(data) ==
  /\ UNCHANGED <<images, images_id_seq, likes, blocks, visits, notifications, messages,
                 user_tags, connected_users, today>>
  /\ UNCHANGED <<running, reports, date_proposals, rooms, push, now>>
  /\ \/ /\ data = NoBody
        /\ resp' = Response(400)
        /\ UNCHANGED <<users, tokens, issued>>
     \/ /\ data # NoBody
        /\ data[1] \in DOMAIN users
        /\ resp' = Response(409)
        /\ UNCHANGED <<users, tokens, issued>>
     \/ /\ data # NoBody
        /\ data[1] \notin DOMAIN users
        /\ Cardinality(DOMAIN users) < MaxAccounts
        /\ Cardinality(Secrets) < MaxSecrets
        /\ users' = users @@ (data[1] :> [NewUser EXCEPT !.is_verified = FALSE,
                                                         !.password_hash = 1])
        /\ tokens' = tokens \cup {TokenRow(data[1], token_urlsafe, "verification",
                                            now + VERIFICATION_HOURS)}
        /\ issued' = issued \cup {token_urlsafe}
        /\ resp' = Response(201)

Register == \E data \in RegisterBodies : register(data)

verify_email(token) ==
  LET found == token_data(token, "verification") IN
  /\ UNCHANGED <<images, images_id_seq, likes, blocks, visits, notifications, messages,
                 user_tags, connected_users, today>>
  /\ UNCHANGED <<running, reports, date_proposals, rooms, push, issued, now>>
  /\ \/ /\ found = {}
        /\ resp' = Response(400)
        /\ UNCHANGED <<users, tokens>>
     \/ /\ found # {}
        /\ \E token_info \in found :
             \/ /\ now > token_info.expires_at
                /\ resp' = Response(400)
                /\ UNCHANGED <<users, tokens>>
             \/ /\ now <= token_info.expires_at
                /\ users[token_info.user_id].is_verified
                /\ resp' = Response(200)
                /\ UNCHANGED <<users, tokens>>
             \/ /\ now <= token_info.expires_at
                /\ ~users[token_info.user_id].is_verified
                /\ users' = [users EXCEPT ![token_info.user_id].is_verified = TRUE]
                /\ tokens' = {row \in tokens : row.token # token}
                /\ resp' = Response(200)

VerifyEmail == \E token \in Links : verify_email(token)

(* A forgot-password body: none or an invalid one, or the account whose     *)
(* email it names.                                                           *)
forgot_password(data) ==
  /\ UNCHANGED <<users, images, images_id_seq, likes, blocks, visits, notifications,
                 messages, user_tags, connected_users, today>>
  /\ UNCHANGED <<running, reports, date_proposals, rooms, push, now>>
  /\ \/ /\ data = NoBody
        /\ resp' = Response(400)
        /\ UNCHANGED <<tokens, issued>>
     \/ /\ data # NoBody
        /\ data[1] \notin DOMAIN users
        /\ resp' = Response(404)
        /\ UNCHANGED <<tokens, issued>>
     \/ /\ data # NoBody
        /\ data[1] \in DOMAIN users
        /\ Cardinality(Secrets) < MaxSecrets
        /\ tokens' = {row \in tokens :
                        ~(row.user_id = data[1] /\ row.type = "password_reset")}
                       \cup {TokenRow(data[1], token_urlsafe, "password_reset",
                                      now + RESET_HOURS)}
        /\ issued' = issued \cup {token_urlsafe}
        /\ resp' = Response(200)

ForgotPassword == \E data \in RegisterBodies : forgot_password(data)

(* A new password by its length and whether it holds a dictionary word;     *)
(* NoBody is a body without the field.                                      *)
Passwords == {NoBody} \cup {<<len, word>> : len \in {MIN_PASSWORD_LENGTH - 1,
                                                     MIN_PASSWORD_LENGTH},
                                           word \in BOOLEAN}

(* bcrypt salts every hash, so a reset always stores a hash not stored      *)
(* before: the rows count them.                                              *)
reset_password(token, data) ==
  LET found == token_data(token, "password_reset") IN
  /\ UNCHANGED <<images, images_id_seq, likes, blocks, visits, notifications, messages,
                 user_tags, connected_users, today>>
  /\ UNCHANGED <<running, reports, date_proposals, rooms, push, issued, now>>
  /\ \/ /\ data = NoBody
        /\ resp' = Response(400)
        /\ UNCHANGED <<users, tokens>>
     \/ /\ data # NoBody
        /\ data[1] < MIN_PASSWORD_LENGTH \/ data[2]
        /\ resp' = Response(400)
        /\ UNCHANGED <<users, tokens>>
     \/ /\ data # NoBody
        /\ data[1] >= MIN_PASSWORD_LENGTH /\ ~data[2]
        /\ found = {}
        /\ resp' = Response(400)
        /\ UNCHANGED <<users, tokens>>
     \/ /\ data # NoBody
        /\ data[1] >= MIN_PASSWORD_LENGTH /\ ~data[2]
        /\ found # {}
        /\ \E token_info \in found :
             \/ /\ now > token_info.expires_at
                /\ resp' = Response(400)
                /\ UNCHANGED <<users, tokens>>
             \/ /\ now <= token_info.expires_at
                /\ users' = [users EXCEPT ![token_info.user_id].password_hash = @ + 1]
                /\ tokens' = {row \in tokens : row.token # token}
                /\ resp' = Response(200)

ResetPassword == \E token \in Links, data \in Passwords : reset_password(token, data)

(* ------------------- toggle_like and block_user, interleaved ----------- *)

(* Requests handled at the same time by different workers.  Each            *)
(* `with Database()` block is a transaction of its own (READ COMMITTED, the *)
(* psycopg2 default): a statement sees what was committed before it, and    *)
(* the writes of a block appear to the others at its commit.  A request is  *)
(* followed from statement to statement; the row it keeps in `running`      *)
(* holds its local variables, and stays there, answered, when it is done.   *)
Request(op, current_user_id, target_user_id, like_status) ==
  [op |-> op, pc |-> "check", current_user_id |-> current_user_id,
   target_user_id |-> target_user_id, like_status |-> like_status,
   liked_by_them |-> FALSE, rating |-> 0, status |-> 0]

Answered(request, status) == [request EXCEPT !.pc = "done", !.status = status]

At(r, op, pc) == r \in DOMAIN running /\ running[r].op = op /\ running[r].pc = pc

(* return jsonify(...), status *)
answer(r, status) ==
  /\ running' = [running EXCEPT ![r] = Answered(running[r], status)]
  /\ resp' = Response(status)

goto(r, pc) == running' = [running EXCEPT ![r].pc = pc]

(* the tests before the first transaction *)
toggle_like_begin(current_user_id, target_user_id, data) ==
  LET request == Request("toggle_like", current_user_id, target_user_id, data = <<TRUE>>) IN
  /\ Len(running) < MaxRequests
  /\ UNCHANGED <<users, images, images_id_seq, likes, blocks, visits, notifications,
                 messages, user_tags, connected_users, today>>
  /\ UNCHANGED <<reports, date_proposals, rooms, push, auth>>
  /\ IF current_user_id = target_user_id \/ data = NoBody
       THEN /\ running' = Append(running, Answered(request, 400))
            /\ resp' = Response(400)
       ELSE /\ running' = Append(running, request)
            /\ UNCHANGED resp

ToggleLikeBegin ==
  \E current_user_id \in DOMAIN users, target_user_id \in UserIds, data \in LikeBodies :
    toggle_like_begin(current_user_id, target_user_id, data)

(* first transaction, up to the two SELECTs on likes *)
toggle_like_check(r) ==
  LET current_user_id == running[r].current_user_id
      target_user_id == running[r].target_user_id
      like_status == running[r].like_status
  IN
  /\ At(r, "toggle_like", "check")
  /\ UNCHANGED <<users, images, images_id_seq, likes, blocks, visits, notifications,
                 messages, user_tags, connected_users, today>>
  /\ UNCHANGED <<reports, date_proposals, rooms, push, auth>>
  /\ \/ /\ target_user_id \notin DOMAIN users
        /\ answer(r, 404)
     \/ /\ target_user_id \in DOMAIN users
        /\ blocked(blocks, current_user_id, target_user_id)
        /\ answer(r, 403)
     \/ /\ target_user_id \in DOMAIN users
        /\ ~blocked(blocks, current_user_id, target_user_id)
        /\ user_images(current_user_id) = {} /\ like_status
        /\ answer(r, 403)
     \/ /\ target_user_id \in DOMAIN users
        /\ ~blocked(blocks, current_user_id, target_user_id)
        /\ user_images(current_user_id) # {}
        /\ like_status
        /\ existing_like(likes, current_user_id, target_user_id)
        /\ answer(r, 200)
     \/ /\ target_user_id \in DOMAIN users
        /\ ~blocked(blocks, current_user_id, target_user_id)
        /\ user_images(current_user_id) # {}
        /\ like_status
        /\ ~existing_like(likes, current_user_id, target_user_id)
        /\ running' = [running EXCEPT
                         ![r].pc = "insert",
                         ![r].liked_by_them =
                            existing_like(likes, target_user_id, current_user_id)]
        /\ UNCHANGED resp
     \/ /\ target_user_id \in DOMAIN users
        /\ ~blocked(blocks, current_user_id, target_user_id)
        /\ ~like_status
        /\ goto(r, "recheck")
        /\ UNCHANGED resp

ToggleLikeCheck == \E r \in DOMAIN running : toggle_like_check(r)

(* INSERT INTO likes, and the commit of the first transaction.  The likes   *)
(* table is taken to have the unique key (liker_id, liked_id) that the seed *)
(* script's ON CONFLICT relies on: a row committed meanwhile makes the      *)
(* INSERT fail, and the request ends with 500.                              *)
toggle_like_insert(r) ==
  LET like == <<running[r].current_user_id, running[r].target_user_id>> IN
  /\ At(r, "toggle_like", "insert")
  /\ UNCHANGED <<users, images, images_id_seq, blocks, visits, notifications,
                 messages, user_tags, connected_users, today>>
  /\ UNCHANGED <<reports, date_proposals, rooms, push, auth>>
  /\ IF like \in likes
       THEN /\ answer(r, 500)
            /\ UNCHANGED likes
       ELSE /\ likes' = likes \cup {like}
            /\ goto(r, "fame")
            /\ UNCHANGED resp

ToggleLikeInsert == \E r \in DOMAIN running : toggle_like_insert(r)

(* second transaction of an unlike: both SELECTs, the DELETE, the commit *)
toggle_like_recheck(r) ==
  LET current_user_id == running[r].current_user_id
      target_user_id == running[r].target_user_id
  IN
  /\ At(r, "toggle_like", "recheck")
  /\ UNCHANGED <<users, images, images_id_seq, blocks, visits, notifications,
                 messages, user_tags, connected_users, today>>
  /\ UNCHANGED <<reports, date_proposals, rooms, push, auth>>
  /\ IF ~existing_like(likes, current_user_id, target_user_id)
       THEN /\ answer(r, 200)
            /\ UNCHANGED likes
       ELSE /\ likes' = likes \ {<<current_user_id, target_user_id>>}
            /\ running' = [running EXCEPT
                             ![r].pc = "fame",
                             ![r].liked_by_them =
                                existing_like(likes, target_user_id, current_user_id)]
            /\ UNCHANGED resp

ToggleLikeRecheck == \E r \in DOMAIN running : toggle_like_recheck(r)

(* update_user_fame, in its own transaction: rating = the SELECT COUNT ... *)
update_user_fame_read(r) ==
  /\ At(r, "toggle_like", "fame")
  /\ UNCHANGED <<users, images, images_id_seq, likes, blocks, visits, notifications,
                 messages, user_tags, connected_users, today, resp>>
  /\ UNCHANGED <<reports, date_proposals, rooms, push, auth>>
  /\ running' = [running EXCEPT
                   ![r].pc = "fame_write",
                   ![r].rating = calculate_fame_rating(likes, running[r].target_user_id)]

UpdateUserFameRead == \E r \in DOMAIN running : update_user_fame_read(r)

(* ... then UPDATE users SET fame_rating = rating, and the commit *)
update_user_fame_write(r) ==
  /\ At(r, "toggle_like", "fame_write")
  /\ UNCHANGED <<images, images_id_seq, likes, blocks, visits, notifications,
                 messages, user_tags, connected_users, today, resp>>
  /\ UNCHANGED <<reports, date_proposals, rooms, push, auth>>
  /\ users' = [users EXCEPT ![running[r].target_user_id].fame_rating = running[r].rating]
  /\ goto(r, "notify")

UpdateUserFameWrite == \E r \in DOMAIN running : update_user_fame_write(r)

(* the send_notification calls and the answer *)
toggle_like_notify(r) ==
  LET current_user_id == running[r].current_user_id
      target_user_id == running[r].target_user_id
      liked_by_them == running[r].liked_by_them
  IN
  /\ At(r, "toggle_like", "notify")
  /\ UNCHANGED <<users, images, images_id_seq, likes, blocks, visits,
                 messages, user_tags, connected_users, today>>
  /\ UNCHANGED <<reports, date_proposals, rooms, pushing, auth>>
  /\ IF running[r].like_status
       THEN /\ NotificationRoom(IF liked_by_them THEN 3 ELSE 1)
            /\ notifications' = like_notifications(notifications, current_user_id,
                                                    target_user_id, liked_by_them)
       ELSE /\ NotificationRoom(IF liked_by_them THEN 1 ELSE 0)
            /\ notifications' = unlike_notifications(notifications, current_user_id,
                                                      target_user_id, liked_by_them)
  /\ emitted' = emitted \cup Pushed(notifications, notifications')
  /\ answer(r, 200)

ToggleLikeNotify == \E r \in DOMAIN running : toggle_like_notify(r)

block_user_begin(current_user_id, target_user_id) ==
  LET request == Request("block_user", current_user_id, target_user_id, FALSE) IN
  /\ Len(running) < MaxRequests
  /\ UNCHANGED <<users, images, images_id_seq, likes, blocks, visits, notifications,
                 messages, user_tags, connected_users, today>>
  /\ UNCHANGED <<reports, date_proposals, rooms, push, auth>>
  /\ IF current_user_id = target_user_id
       THEN /\ running' = Append(running, Answered(request, 400))
            /\ resp' = Response(400)
       ELSE /\ running' = Append(running, request)
            /\ UNCHANGED resp

BlockUserBegin ==
  \E current_user_id \in DOMAIN users, target_user_id \in UserIds :
    block_user_begin(current_user_id, target_user_id)

(* the SELECTs on users and blocks *)
block_user_check(r) ==
  LET current_user_id == running[r].current_user_id
      target_user_id == running[r].target_user_id
  IN
  /\ At(r, "block_user", "check")
  /\ UNCHANGED <<users, images, images_id_seq, likes, blocks, visits, notifications,
                 messages, user_tags, connected_users, today>>
  /\ UNCHANGED <<reports, date_proposals, rooms, push, auth>>
  /\ \/ /\ target_user_id \notin DOMAIN users
        /\ answer(r, 404)
     \/ /\ target_user_id \in DOMAIN users
        /\ blocked_by_me(blocks, current_user_id, target_user_id)
        /\ answer(r, 200)
     \/ /\ target_user_id \in DOMAIN users
        /\ ~blocked_by_me(blocks, current_user_id, target_user_id)
        /\ goto(r, "insert")
        /\ UNCHANGED resp

BlockUserCheck == \E r \in DOMAIN running : block_user_check(r)

(* INSERT INTO blocks, the two DELETEs on likes, the commit; a block row    *)
(* committed meanwhile makes the INSERT fail, as for likes.                 *)
block_user_insert(r) ==
  LET current_user_id == running[r].current_user_id
      target_user_id == running[r].target_user_id
  IN
  /\ At(r, "block_user", "insert")
  /\ UNCHANGED <<users, images, images_id_seq, visits, notifications,
                 messages, user_tags, connected_users, today>>
  /\ UNCHANGED <<reports, date_proposals, rooms, push, auth>>
  /\ IF blocked_by_me(blocks, current_user_id, target_user_id)
       THEN /\ answer(r, 500)
            /\ UNCHANGED <<likes, blocks>>
       ELSE /\ blocks' = blocks \cup {<<current_user_id, target_user_id>>}
            /\ likes' = remove_likes_between(likes, current_user_id, target_user_id)
            /\ answer(r, 200)

BlockUserInsert == \E r \in DOMAIN running : block_user_insert(r)

(* Every request that creates an association, with any target, also the     *)
(* caller itself.                                                            *)
SelfInit == FreshDb(NumSelfUsers, 1..NumSelfUsers)

SelfNext ==
  \/ ToggleLike
  \/ BlockUser
  \/ ReportUser
  \/ SendMessage
  \/ HandleConnect
  \/ HandleSendMessage
  \/ ProposeDate

SelfSpec == SelfInit /\ [][SelfNext]_vars

(* Like and block requests handled at the same time. *)
RaceInit == FreshDb(NumRaceUsers, 1..NumRaceUsers)

RaceNext ==
  \/ ToggleLikeBegin
  \/ ToggleLikeCheck
  \/ ToggleLikeInsert
  \/ ToggleLikeRecheck
  \/ UpdateUserFameRead
  \/ UpdateUserFameWrite
  \/ ToggleLikeNotify
  \/ BlockUserBegin
  \/ BlockUserCheck
  \/ BlockUserInsert

RaceSpec == RaceInit /\ [][RaceNext]_vars

(* Accounts registered, verified by link or through Google, passwords       *)
(* reset, while the links age.                                               *)
RedeemInit ==
  /\ users = [u \in {} |-> NewUser]
  /\ images = {}
  /\ likes = {}
  /\ blocks = {}
  /\ visits = {}
  /\ notifications = EmptyBag
  /\ messages = <<>>
  /\ user_tags = {}
  /\ connected_users = [s \in {} |-> 0]
  /\ today = 0
  /\ resp = Response(0)
  /\ NothingElse

RedeemNext ==
  \/ Register
  \/ VerifyEmail
  \/ ForgotPassword
  \/ ResetPassword
  \/ GoogleCallback
  \/ Tick

RedeemSpec == RedeemInit /\ [][RedeemNext]_vars

(* Conversations being read: account 1 is matched with 2 and with 3 and    *)
(* each of the four has sent the other one message, none read yet.         *)
ReadInit ==
  /\ users = [u \in 1..NumReadUsers |->
                [NewUser EXCEPT !.fame_rating = IF u = 1 THEN 10 * (NumReadUsers - 1)
                                                         ELSE 10]]
  /\ images = {Image(u, u, FALSE) : u \in 1..NumReadUsers}
  /\ likes = UNION {{<<1, u>>, <<u, 1>>} : u \in 2..NumReadUsers}
  /\ blocks = {}
  /\ visits = {}
  /\ messages = [i \in 1..(2 * (NumReadUsers - 1)) |->
                   IF i % 2 = 1 THEN Message(1, 1 + (i + 1) \div 2, 1)
                                ELSE Message(1 + i \div 2, 1, 1)]
  /\ notifications = SetToBag({Notification(messages[i].receiver_id, "message",
                                             messages[i].sender_id) :
                                 i \in DOMAIN messages})
  /\ user_tags = {}
  /\ connected_users = [s \in {} |-> 0]
  /\ today = 0
  /\ resp = Response(0)
  /\ reports = {}
  /\ date_proposals = <<>>
  /\ rooms = {}
  /\ emitted = Pushed(EmptyBag, notifications)
  /\ pushing = {}
  /\ tokens = {}
  /\ issued = {}
  /\ now = 0
  /\ images_id_seq = NumReadUsers + 1
  /\ running = <<>>

ReadNext ==
  \/ GetMessages
  \/ MarkMessagesRead
  \/ BlockUser

ReadSpec == ReadInit /\ [][ReadNext]_vars

(* Pictures uploaded, deleted and chosen as profile picture; accounts       *)
(* created through Google.                                                  *)
ImageInit == FreshDb(NumImageUsers, 1..NumImageUsers)

ImageNext ==
  \/ UploadImage
  \/ DeleteImage
  \/ SetProfilePicture
  \/ GoogleCallback

ImageSpec == ImageInit /\ [][ImageNext]_vars

(* Likes and unlikes repeated, between blocks and picture deletions. *)
RepeatInit == FreshDb(NumRepeatUsers, 1..NumRepeatUsers)

RepeatNext == ToggleLike \/ BlockUser \/ DeleteImage

RepeatSpec == RepeatInit /\ [][RepeatNext]_vars

(* Logging in and out over two days; the last account never verified its   *)
(* email.                                                                    *)
AuthInit ==
  /\ users = [u \in 1..NumAuthUsers |->
                [NewUser EXCEPT !.is_verified = (u # NumAuthUsers)]]
  /\ images = {}
  /\ likes = {}
  /\ blocks = {}
  /\ visits = {}
  /\ notifications = EmptyBag
  /\ messages = <<>>
  /\ user_tags = {}
  /\ connected_users = [s \in {} |-> 0]
  /\ today = 0
  /\ resp = Response(0)
  /\ NothingElse

AuthNext ==
  \/ Login
  \/ Logout
  \/ GetUnreadCount
  \/ Tick

AuthSpec == AuthInit /\ [][AuthNext]_vars

(* ================================ properties =========================== *)

LikesReceived(user_id) == Cardinality({l \in likes : l[2] = user_id})

OneRow(row) == SetToBag({row})

(* C1: a message row from A to B is written, over REST or over the socket,  *)
(* only from a state in which both like rows between A and B exist and no   *)
(* block row exists between them; a well-formed send between two accounts   *)
(* from any other state is answered 403 (REST) or 'error' (socket) and      *)
(* writes no message row.                                                    *)
MessageOnlyBetweenConnected ==
  [][/\ (Len(messages') > Len(messages) =>
           LET m == messages'[Len(messages')] IN
             /\ Len(messages') = Len(messages) + 1
             /\ <<m.sender_id, m.receiver_id>> \in likes
             /\ <<m.receiver_id, m.sender_id>> \in likes
             /\ <<m.sender_id, m.receiver_id>> \notin blocks
             /\ <<m.receiver_id, m.sender_id>> \notin blocks)
     /\ \A a \in DOMAIN users, b \in DOMAIN users :
          LET allowed == /\ <<a, b>> \in likes /\ <<b, a>> \in likes
                         /\ <<a, b>> \notin blocks /\ <<b, a>> \notin blocks
          IN  (a # b /\ ~allowed) =>
                /\ (send_message(a, b, 1) => resp'.status = 403 /\ messages' = messages)
                /\ \A sid \in DOMAIN connected_users :
                     (connected_users[sid] = a /\ handle_send_message(sid, b, 1)) =>
                       (resp'.event = "error" /\ messages' = messages)
    ]_vars

C1Witness ==
  /\ Len(messages) = 1
  /\ resp.status = 201
  /\ are_connected(likes, messages[1].sender_id, messages[1].receiver_id)

(* C2: a first-time block_user(A, B) answers 200 and leaves a block row     *)
(* (A, B) and neither like row between A and B, so the pair is no longer    *)
(* connected.                                                                *)
BlockRemovesLikes ==
  [][\A a \in DOMAIN users, b \in DOMAIN users :
       (a # b /\ <<a, b>> \notin blocks /\ block_user(a, b)) =>
         /\ resp'.status = 200
         /\ <<a, b>> \in blocks'
         /\ <<a, b>> \notin likes'
         /\ <<b, a>> \notin likes'
    ]_vars

C2Witness ==
  /\ <<1, 2>> \in blocks
  /\ BagIn(Notification(1, "match", 2), notifications)
  /\ <<1, 2>> \notin likes
  /\ <<2, 1>> \notin likes

(* C3: a like request by an account without an image row is answered 403    *)
(* and changes no like, notification or fame value; an unlike request by    *)
(* such an account is served: it answers 200 and the like row is gone.      *)
PhotoRequiredToLike ==
  [][\A a \in DOMAIN users, b \in DOMAIN users :
       (a # b /\ {img \in images : img.user_id = a} = {}
          /\ <<a, b>> \notin blocks /\ <<b, a>> \notin blocks) =>
         /\ toggle_like(a, b, <<TRUE>>) =>
              /\ resp'.status = 403
              /\ likes' = likes
              /\ notifications' = notifications
              /\ users' = users
         /\ toggle_like(a, b, <<FALSE>>) =>
              /\ resp'.status = 200
              /\ likes' = likes \ {<<a, b>>}
    ]_vars

C3Witness ==
  /\ {img \in images : img.user_id = 1} = {}
  /\ <<1, 2>> \in likes
  /\ resp.status = 403

(* C4: every account's stored fame_rating equals min(5.0, likes received /  *)
(* 10) after any sequence of like, unlike and block requests.               *)
FameMatchesLikes ==
  \A u \in DOMAIN users : users[u].fame_rating = Min(FAME_CAP, 10 * LikesReceived(u))

(* C5: calculate_fame_rating is 0 without likes, grows by 0.1 with each     *)
(* like below 50, lies within [0.00, 5.00] and is 5.0 from 50 likes on; it  *)
(* is the value update_user_fame stores.                                     *)
FameRatingLaw ==
  \A u \in FameTargets :
    LET n == LikesReceived(u)
        rating == calculate_fame_rating(likes, u)
        one_more == calculate_fame_rating(likes \cup {<<MaxLikes + 3, u>>}, u)
    IN  /\ rating \in 0..500
        /\ (n = 0 => rating = 0)
        /\ (n < 50 => rating = 10 * n /\ one_more = rating + 10)
        /\ (n >= 50 => rating = 500 /\ one_more = 500)
        /\ users[u].fame_rating \in {0, rating}

C5Witness ==
  /\ LikesReceived(1) > 50
  /\ users[1].fame_rating = 500
  /\ LikesReceived(2) = 7
  /\ users[2].fame_rating = 70

(* C6: a like row inserted from A to B comes with exactly one 'like' row    *)
(* for B, and, exactly when B already liked A, with one 'match' row for B   *)
(* from A and one for A from B: 1 new notification row, or 3.               *)
LikeNotifications ==
  [][\A a \in DOMAIN users, b \in DOMAIN users :
       (<<a, b>> \notin likes /\ <<a, b>> \in likes') =>
         IF <<b, a>> \in likes
           THEN /\ notifications' = notifications (+) OneRow(Notification(b, "like", a))
                                      (+) OneRow(Notification(b, "match", a))
                                      (+) OneRow(Notification(a, "match", b))
                /\ BagCardinality(notifications') = BagCardinality(notifications) + 3
           ELSE /\ notifications' = notifications (+) OneRow(Notification(b, "like", a))
                /\ BagCardinality(notifications') = BagCardinality(notifications) + 1
    ]_vars

C6Witness ==
  /\ are_connected(likes, 1, 2)
  /\ BagCardinality(notifications) = 4
  /\ BagIn(Notification(1, "match", 2), notifications)
  /\ BagIn(Notification(2, "match", 1), notifications)

(* C7: an unlike that deletes the like row from A to B writes exactly one   *)
(* 'unlike' row for B if B likes A, and no notification row otherwise.      *)
UnlikeNotifications ==
  [][\A a \in DOMAIN users, b \in DOMAIN users :
       (<<a, b>> \in likes /\ toggle_like(a, b, <<FALSE>>)) =>
         /\ <<a, b>> \notin likes'
         /\ IF <<b, a>> \in likes
              THEN notifications' = notifications (+) OneRow(Notification(b, "unlike", a))
              ELSE notifications' = notifications
    ]_vars

C7Witness ==
  /\ BagIn(Notification(2, "unlike", 1), notifications)
  /\ <<1, 2>> \notin likes
  /\ <<2, 1>> \in likes

(* C8: an accepted view of B by A writes a 'visit' row for B only when A    *)
(* has no visit row for B dated today, and then creates that row with count *)
(* 1; otherwise it adds one to the count of the existing row, creates no    *)
(* row and writes no notification.                                           *)
VisitNotifiedOncePerDay ==
  [][\A a \in DOMAIN users, b \in DOMAIN users :
       (a # b /\ <<a, b>> \notin blocks /\ <<b, a>> \notin blocks
          /\ view_user_profile(a, b)) =>
         LET seen == {v \in visits : v.visitor_id = a /\ v.visited_id = b /\ v.day = today}
         IN  IF seen = {}
               THEN /\ visits' = visits \cup {Visit(a, b, today, 1)}
                    /\ notifications' =
                         notifications (+) OneRow(Notification(b, "visit", a))
               ELSE /\ Cardinality(seen) = 1
                    /\ \E v \in seen :
                         visits' = (visits \ {v}) \cup
                                     {Visit(a, b, today, v.visit_count + 1)}
                    /\ Cardinality(visits') = Cardinality(visits)
                    /\ notifications' = notifications
    ]_vars

C8Witness ==
  /\ today = 1
  /\ Visit(1, 2, 1, 2) \in visits
  /\ Visit(1, 2, 0, 1) \in visits
  /\ CopiesIn(Notification(2, "visit", 1), notifications) = 2

(* C9: while a block row exists between A and B in either direction, a view *)
(* or a like/unlike request between them, from either side, is answered 403 *)
(* and changes no visit, like, fame value or notification.                  *)
BlockedPairRejected ==
  [][\A a \in DOMAIN users, b \in DOMAIN users :
       (a # b /\ (<<a, b>> \in blocks \/ <<b, a>> \in blocks)) =>
         /\ view_user_profile(a, b) =>
              /\ resp'.status = 403
              /\ visits' = visits
              /\ notifications' = notifications
         /\ \A data \in {<<TRUE>>, <<FALSE>>} :
              toggle_like(a, b, data) =>
                /\ resp'.status = 403
                /\ likes' = likes
                /\ users' = users
                /\ notifications' = notifications
    ]_vars

C9Witness ==
  /\ resp.status = 403
  /\ <<1, 2>> \in blocks
  /\ <<2, 1>> \notin blocks
  /\ visits # {}

(* C10: whatever the requester, mode, filters, sort and page, the page that *)
(* get_suggestions answers with holds neither the requester, nor an         *)
(* unverified account, nor an account with a block row to or from the       *)
(* requester.                                                                *)
SuggestionsExclude ==
  \A c \in DOMAIN users, q \in Queries :
    LET page == suggestions(c, q).users IN
      \A i \in 1..Len(page) :
        /\ page[i].id # c
        /\ page[i].id \in DOMAIN users
        /\ users[page[i].id].is_verified
        /\ <<c, page[i].id>> \notin blocks
        /\ <<page[i].id, c>> \notin blocks

C10Witness ==
  /\ resp.event = "search"
  /\ Len(resp.users) = 1
  /\ blocks # {}
  /\ \E u \in DOMAIN users : ~users[u].is_verified

(* C11: for any two verified accounts A and B, whatever their stored gender *)
(* and preference, B passes the orientation filter built for A (A's         *)
(* browsing request selects B) exactly when A passes the one built for B.   *)
OrientationSymmetric ==
  [][\A a \in DOMAIN users, b \in DOMAIN users :
       (a # b /\ users[a].is_verified /\ users[b].is_verified
          /\ get_suggestions(a, DefaultQuery)) =>
         ((\E i \in 1..Len(resp'.users) : resp'.users[i].id = b)
            <=> build_orientation_filter(users[b].gender, users[b].sexual_preference,
                                         users[a]))
    ]_vars

(* C12: every user get_suggestions returns lies within each bound the       *)
(* request supplies (a null age passes): age in [min_age, max_age],         *)
(* distance_km at most max_distance, fame_rating in [min_fame, max_fame];   *)
(* and the users apply_filters removes are exactly those outside a bound.   *)
InBounds(user, q) ==
  /\ (q.min_age # None /\ user.age # None) => user.age >= q.min_age
  /\ (q.max_age # None /\ user.age # None) => user.age <= q.max_age
  /\ (q.max_distance # None) => user.distance_km <= q.max_distance * 10
  /\ (q.min_fame # None) => user.fame_rating >= q.min_fame
  /\ (q.max_fame # None) => user.fame_rating <= q.max_fame

FiltersRespected ==
  [][\A c \in DOMAIN users, q \in Queries :
       get_suggestions(c, q) =>
         LET candidates == processed_users(c, q)
             within(user) == InBounds(user, q)
         IN  /\ \A i \in 1..Len(resp'.users) : within(resp'.users[i])
             /\ resp'.total = Len(SelectSeq(candidates, within))
    ]_vars

(* C13: the list sort_users returns is a permutation of the list it is      *)
(* given, ordered by the chosen field (distance for an unknown sort name):  *)
(* non-decreasing for 'asc', non-increasing for 'desc', and in both orders  *)
(* every user whose field is null comes after every user that has a value.  *)
FieldOf(sort) ==
  IF sort = "age" THEN "age"
  ELSE IF sort = "fame_rating" THEN "fame_rating"
  ELSE IF sort = "common_tags" THEN "common_tags_count"
  ELSE "distance_km"

SortedPermutation ==
  [][\A q \in SortQueries :
       get_suggestions(1, q) =>
         LET input == processed_users(1, q)
             out == resp'.users
             f == FieldOf(q.sort)
         IN  /\ Len(out) = Len(input)
             /\ \A i \in 1..Len(input) :
                  Cardinality({j \in 1..Len(out) : out[j] = input[i]}) = 1
             /\ \A i \in 1..Len(out), j \in 1..Len(out) :
                  (i < j) =>
                    /\ (out[i][f] = None => out[j][f] = None)
                    /\ (out[i][f] # None /\ out[j][f] # None) =>
                         IF q.order = "desc" THEN out[i][f] >= out[j][f]
                                             ELSE out[i][f] <= out[j][f]
    ]_vars

C13Witness ==
  /\ Len(resp.users) = 3
  /\ resp.users[1].age = 35 /\ resp.users[1].id = 4
  /\ resp.users[2].age = 20 /\ resp.users[2].id = 2
  /\ resp.users[3].age = None /\ resp.users[3].id = 3

(* C14: for every requested page and limit the answer is a page of at most  *)
(* min(limit, 50) users, those at the positions (page-1)*limit ..           *)
(* page*limit-1 of the sorted list; total is the number of filtered users,  *)
(* pages is ceil(total/limit), and the pages 1..pages are disjoint and      *)
(* together hold every filtered user exactly once.                           *)
Filtered(c, q) ==
  sort_users(apply_filters(processed_users(c, q), q.min_age, q.max_age, q.max_distance,
                           q.min_fame, q.max_fame), q.sort, q.order)

PageOf(c, q, page) == suggestions(c, [q EXCEPT !.page = page]).users

Paginated ==
  [][\A q \in PageQueries :
       get_suggestions(1, q) =>
         LET all == Filtered(1, q)
             limit == Min(q.limit, MAX_LIMIT)
             first == (q.page - 1) * limit
             positions == {i \in 0..(Len(all) - 1) : first <= i /\ i <= q.page * limit - 1}
             page_ids == [p \in 1..resp'.pages |->
                            LET page == PageOf(1, q, p)
                            IN  [ids |-> {page[i].id : i \in 1..Len(page)}, len |-> Len(page)]]
         IN  /\ resp'.status = 200
             /\ Len(resp'.users) <= limit
             /\ Len(resp'.users) = Cardinality(positions)
             /\ \A i \in 1..Len(resp'.users) : resp'.users[i] = all[first + i]
             /\ resp'.total = Len(all)
             /\ resp'.pages * limit >= resp'.total
             /\ (resp'.pages - 1) * limit < resp'.total
             /\ \A p \in 1..resp'.pages : Cardinality(page_ids[p].ids) = page_ids[p].len
             /\ \A k \in 1..Len(all) :
                  Cardinality({p \in 1..resp'.pages : all[k].id \in page_ids[p].ids}) = 1
    ]_vars

(* C15: a date-proposal request between A and B (propose, respond, list)   *)
(* succeeds only from a state in which both like rows between A and B exist *)
(* and no block row does; from any other state it is rejected and changes   *)
(* no proposal.                                                              *)
Connected(a, b) ==
  /\ <<a, b>> \in likes /\ <<b, a>> \in likes
  /\ <<a, b>> \notin blocks /\ <<b, a>> \notin blocks

Rejected == resp'.status \in {403, 400} /\ date_proposals' = date_proposals

DatesOnlyBetweenConnected ==
  [][\A a \in DOMAIN users, b \in DOMAIN users :
       (a # b /\ ~Connected(a, b)) =>
         /\ propose_date(a, b, "valid") => Rejected
         /\ get_date_proposals(a, b) => Rejected
         /\ \A id \in DOMAIN date_proposals, data \in {<<"accepted">>, <<"declined">>} :
              (date_proposals[id].sender_id = b /\ date_proposals[id].receiver_id = a
                 /\ respond_to_date(a, id, data)) => Rejected
    ]_vars

(* C19: a proposal row is created pending, no row disappears, and a status *)
(* changes only from pending, to accepted or declined, so at most once.    *)
(* respond_to_date with 'accepted' or 'declined' answers 200 and sets the   *)
(* status only for the receiver of a pending proposal; for any other        *)
(* account it answers 403, for the receiver of an answered proposal 400,    *)
(* and then neither a status nor the notification log changes.              *)
StatusChangesOnce ==
  [][/\ Len(date_proposals') >= Len(date_proposals)
     /\ \A id \in DOMAIN date_proposals' :
          IF id \in DOMAIN date_proposals
            THEN \/ date_proposals'[id] = date_proposals[id]
                 \/ /\ date_proposals[id].status = "pending"
                    /\ date_proposals'[id].status \in {"accepted", "declined"}
                    /\ date_proposals'[id].sender_id = date_proposals[id].sender_id
                    /\ date_proposals'[id].receiver_id = date_proposals[id].receiver_id
            ELSE date_proposals'[id].status = "pending"
     /\ \A u \in DOMAIN users, id \in DOMAIN date_proposals,
           data \in {<<"accepted">>, <<"declined">>} :
          respond_to_date(u, id, data) =>
            IF date_proposals[id].receiver_id = u /\ date_proposals[id].status = "pending"
              THEN /\ resp'.status = 200
                   /\ date_proposals'[id].status = data[1]
              ELSE /\ resp'.status =
                        (IF date_proposals[id].receiver_id # u THEN 403 ELSE 400)
                   /\ date_proposals' = date_proposals
                   /\ notifications' = notifications
    ]_vars

C19Witness ==
  /\ Len(date_proposals) = 2
  /\ date_proposals[1].status = "accepted"
  /\ date_proposals[2].status = "declined"
  /\ resp.status = 403

(* C16: a 'notification' event is emitted to room user_X only when the row *)
(* for X with that type and source is already committed; a call whose       *)
(* insert fails adds no row and never reaches the emit; a call whose insert *)
(* commits leaves the row whether or not X has a session.                   *)
RowOf(e) == Notification(e.room, e.type, e.from_user_id)

PersistBeforePush ==
  [][/\ \A e \in emitted' \ emitted : BagIn(RowOf(e), notifications)
     /\ \A e \in emitted' : BagIn(RowOf(e), notifications')
     /\ \A u \in DOMAIN users, src \in DOMAIN users, type \in NotificationTypes :
          /\ send_notification_insert(u, type, src, FALSE) =>
               /\ notifications' = notifications
               /\ emitted' = emitted
               /\ pushing' = pushing
          /\ send_notification_insert(u, type, src, TRUE) =>
               /\ notifications' = notifications (+) OneRow(Notification(u, type, src))
               /\ emitted' = emitted
    ]_vars

C16Witness ==
  /\ Event(1, "match", 2) \in emitted
  /\ BagIn(Notification(1, "match", 2), notifications)
  /\ ~\E sid \in DOMAIN connected_users : connected_users[sid] = 1
  /\ \E sid \in DOMAIN connected_users : connected_users[sid] = 2
  /\ BagIn(Notification(2, "visit", 1), notifications)
  /\ Event(2, "visit", 1) \notin emitted
  /\ resp = Raised

(* C17: a connect whose token is missing, forged or expired is refused and  *)
(* changes neither the registry nor a room; any other connect adds exactly *)
(* the entry sid -> user_id and joins room user_<user_id>; a disconnect     *)
(* removes the entry of its own session and no other; nothing else changes *)
(* the registry.  So the registry holds exactly the accepted sessions that  *)
(* have not disconnected.                                                    *)
Decodable(token) == token # NoToken /\ token[2] = "valid" /\ token[3] > now

RegistryExact ==
  [][/\ \A sid \in Sids, token \in Tokens :
          handle_connect(sid, token) =>
            IF Decodable(token)
              THEN /\ DOMAIN connected_users' = DOMAIN connected_users \cup {sid}
                   /\ connected_users'[sid] = token[1]
                   /\ \A other \in DOMAIN connected_users :
                        connected_users'[other] = connected_users[other]
                   /\ rooms' = rooms \cup {<<token[1], sid>>}
              ELSE /\ resp'.event = "refused"
                   /\ connected_users' = connected_users
                   /\ rooms' = rooms
     /\ \A sid \in Sids :
          handle_disconnect(sid) =>
            /\ DOMAIN connected_users' = DOMAIN connected_users \ {sid}
            /\ \A other \in DOMAIN connected_users' :
                 connected_users'[other] = connected_users[other]
     /\ (connected_users' # connected_users) =>
          \/ \E sid \in Sids, token \in Tokens : handle_connect(sid, token)
          \/ \E sid \in Sids : handle_disconnect(sid)
    ]_vars

C17Witness ==
  /\ DOMAIN connected_users = {2}
  /\ connected_users[2] = 1
  /\ rooms = {<<1, 2>>}
  /\ resp.event = "disconnect"

(* C18: no like, block, report, message or date proposal has the same       *)
(* account on both sides, whatever target the requests name; in particular  *)
(* the socket send_message event stores no message to its own sender.       *)
NoSelfReference ==
  /\ \A l \in likes : l[1] # l[2]
  /\ \A b \in blocks : b[1] # b[2]
  /\ \A r \in reports : r[1] # r[2]
  /\ \A i \in DOMAIN messages : messages[i].sender_id # messages[i].receiver_id
  /\ \A i \in DOMAIN date_proposals :
       date_proposals[i].sender_id # date_proposals[i].receiver_id

C18Witness ==
  /\ resp.event = "error"
  /\ likes # {}
  /\ reports # {}
  /\ date_proposals # <<>>
  /\ connected_users # <<>>

(* C20: once logout has blacklisted a token, every later request carrying    *)
(* it to a protected endpoint is answered 401, before and after its expiry,  *)
(* while every other live token, of the same account too, is still           *)
(* answered 200.                                                             *)
LoggedOutRejected ==
  [][\A t \in issued :
       /\ (Blacklisted(t) /\ (get_unread_count(t) \/ logout(t)))
            => resp'.status = 401
       /\ (~Blacklisted(t) /\ decode_token(t) # <<>> /\ get_unread_count(t))
            => resp'.status = 200]_vars

C20Witness ==
  \E row \in tokens, other \in issued :
    /\ row.type = "blacklist"
    /\ row.expires_at > now
    /\ other # row.token
    /\ other[1] = row.user_id
    /\ ~Blacklisted(other)
    /\ decode_token(other) # <<>>
    /\ resp.status = 401

(* The like or unlike request asks for what the likes table already says. *)
Redundant(current_user_id, target_user_id, data) ==
  \/ data = <<TRUE>> /\ <<current_user_id, target_user_id>> \in likes
  \/ data = <<FALSE>> /\ <<current_user_id, target_user_id>> \notin likes

(* The request gets as far as the test of the existing like row. *)
PassesChecks(current_user_id, target_user_id, data) ==
  /\ ~blocked(blocks, current_user_id, target_user_id)
  /\ data = <<TRUE>> => user_images(current_user_id) # {}

(* C21 as stated: a like of an account already liked, and an unlike of an   *)
(* account not liked, is answered 200 and changes no like row, no           *)
(* notification and no fame_rating.                                          *)
RepeatedLikeIs200 ==
  [][\A c \in DOMAIN users : \A t \in DOMAIN users \ {c}, data \in {<<TRUE>>, <<FALSE>>} :
       (Redundant(c, t, data) /\ toggle_like(c, t, data))
         => /\ resp'.status = 200
            /\ UNCHANGED <<likes, notifications, users>>]_vars

(* C21 amended: such a request changes no like row, no notification and no  *)
(* fame_rating, and is answered 200 when neither account blocks the other   *)
(* and, for a like, the caller still has a picture (403 otherwise).          *)
RepeatedLikeChangesNothing ==
  [][\A c \in DOMAIN users : \A t \in DOMAIN users \ {c}, data \in {<<TRUE>>, <<FALSE>>} :
       (Redundant(c, t, data) /\ toggle_like(c, t, data))
         => /\ UNCHANGED <<likes, notifications, users, emitted>>
            /\ resp'.status = IF PassesChecks(c, t, data) THEN 200 ELSE 403]_vars

C21Witness ==
  \E c \in DOMAIN users : \E t \in DOMAIN users \ {c} :
    /\ <<c, t>> \in likes
    /\ user_images(c) = {}
    /\ resp.status = 403

(* C22: no account ever owns more than MAX_IMAGES_PER_USER image rows, and   *)
(* an upload whose named files would pass that number is answered 400 and   *)
(* stores nothing.                                                           *)
ImageCapKept ==
  /\ [](\A u \in DOMAIN users :
         Cardinality({img \in images : img.user_id = u}) <= MAX_IMAGES_PER_USER)
  /\ [][\A u \in DOMAIN users, files \in Uploads :
         (/\ Cardinality({img \in images : img.user_id = u})
               + Len(SelectSeq(files, LAMBDA f : f # "")) > MAX_IMAGES_PER_USER
          /\ upload_image(u, files))
           => (resp'.status = 400 /\ UNCHANGED images)]_vars

C22Witness ==
  /\ \E u \in DOMAIN users :
       Cardinality({img \in images : img.user_id = u}) = MAX_IMAGES_PER_USER
  /\ resp.status = 400
  /\ Cardinality(DOMAIN users) > NumImageUsers

(* C23: no account has two images flagged as profile picture; choosing one  *)
(* leaves the flag on exactly the chosen image among the caller's images,   *)
(* is answered 404 without any change for an image the caller does not own, *)
(* and never touches the images of another account.                         *)
OneProfilePicture ==
  /\ [](\A u \in DOMAIN users :
         Cardinality({img \in images : img.user_id = u /\ img.is_profile_pic}) <= 1)
  /\ [][\A u \in DOMAIN users, id \in ImageIds :
         set_profile_picture(u, id)
           => IF \E img \in images : img.id = id /\ img.user_id = u
                THEN /\ resp'.status = 200
                     /\ {img.id : img \in {i \in images' : i.user_id = u /\ i.is_profile_pic}}
                          = {id}
                     /\ {i \in images' : i.user_id # u} = {i \in images : i.user_id # u}
                     /\ {i.id : i \in images'} = {i.id : i \in images}
                ELSE /\ resp'.status = 404
                     /\ UNCHANGED images]_vars

C23Witness ==
  \E a \in images, b \in images :
    /\ a.user_id = b.user_id
    /\ a.id < b.id
    /\ b.is_profile_pic
    /\ ~a.is_profile_pic
    /\ \E c \in images : c.user_id # a.user_id /\ c.is_profile_pic
    /\ resp.status = 404

(* The rows are those of before, and is_read is TRUE now exactly on the rows *)
(* that were read before or were sent by other_user_id to current_user_id.  *)
ReadExactly(current_user_id, other_user_id) ==
  /\ DOMAIN messages' = DOMAIN messages
  /\ \A i \in DOMAIN messages :
       messages'[i] =
         [messages[i] EXCEPT
            !.is_read = \/ messages[i].is_read
                        \/ /\ messages[i].sender_id = other_user_id
                           /\ messages[i].receiver_id = current_user_id]

(* The step is a get_messages request of current_user_id about             *)
(* other_user_id, with whatever limit and before_id.                        *)
IsGetMessages(current_user_id, other_user_id) ==
  \E asked \in MessageLimits, before_id \in BeforeIds :
    get_messages(current_user_id, other_user_id, asked, before_id)

(* No row is ever marked unread again. *)
NeverUnread ==
  /\ Len(messages') >= Len(messages)
  /\ \A i \in DOMAIN messages : messages[i].is_read => messages'[i].is_read

(* C24 as stated: every get_messages and every mark_messages_read request   *)
(* marks exactly the messages sent by the other account to the caller.      *)
ReadMarksReceived ==
  [][/\ NeverUnread
     /\ \A c \in DOMAIN users, o \in UserIds :
          /\ ReadExactly(c, o) \/ ~mark_messages_read(c, o)
          /\ ReadExactly(c, o) \/ ~IsGetMessages(c, o)]_vars

(* C24 amended: mark_messages_read always, and get_messages when it answers *)
(* 200, marks exactly the messages sent by the other account to the caller; *)
(* a get_messages that is refused changes no message; no step marks a       *)
(* message unread.                                                           *)
ReadMarksReceivedOn200 ==
  [][/\ NeverUnread
     /\ \A c \in DOMAIN users, o \in UserIds :
          /\ ReadExactly(c, o) \/ ~mark_messages_read(c, o)
          /\ \/ IF resp'.status = 200 THEN ReadExactly(c, o) ELSE UNCHANGED messages
             \/ ~IsGetMessages(c, o)]_vars

C24Witness ==
  \E i \in DOMAIN messages, j \in DOMAIN messages, k \in DOMAIN messages :
    /\ messages[i].is_read
    /\ messages[j].sender_id = messages[i].receiver_id
    /\ messages[j].receiver_id = messages[i].sender_id
    /\ ~messages[j].is_read
    /\ messages[k].receiver_id = messages[i].receiver_id
    /\ messages[k].sender_id # messages[i].sender_id
    /\ ~messages[k].is_read
    /\ resp.status = 200
    /\ resp.total > 0

(* The link is of no use any more: its row is gone or past its expires_at. *)
Spent(token) ==
  \A row \in tokens : row.token = token => now > row.expires_at

(* C25: a verification or reset link is redeemed at most once: the request  *)
(* that answers 200 deletes its token row, and a request with a link whose  *)
(* row is gone or expired is answered 400 and changes no account.           *)
RedeemedOnce ==
  [][\A token \in Links :
       /\ (verify_email(token) /\ resp'.status = 200)
            => \A row \in tokens' : row.token # token
       /\ \A data \in Passwords :
            (reset_password(token, data) /\ resp'.status = 200)
              => \A row \in tokens' : row.token # token
       /\ Spent(token)
            => /\ verify_email(token) => (resp'.status = 400 /\ UNCHANGED users)
               /\ \A data \in Passwords :
                    reset_password(token, data)
                      => (resp'.status = 400 /\ UNCHANGED users)]_vars

(* Every request taken up has been answered. *)
AllCompleted == \A r \in DOMAIN running : running[r].pc = "done"

(* C26: once a like request and a block request between the same two        *)
(* accounts have both completed, in whatever order their statements ran, no *)
(* block row and like row between the two exist together.                   *)
NoLikeAcrossBlock ==
  AllCompleted =>
    \A l \in likes : ~is_blocked(blocks, l[1], l[2])

(* C27: once concurrent like and unlike requests have all completed, every  *)
(* stored fame_rating is the one computed from the likes received.          *)
FameSettles ==
  (/\ AllCompleted
   /\ \A r \in DOMAIN running : running[r].op = "toggle_like"
   /\ \A r \in DOMAIN running : \A q \in DOMAIN running \ {r} :
        running[r].current_user_id # running[q].current_user_id) =>
    \A u \in DOMAIN users : users[u].fame_rating = calculate_fame_rating(likes, u)

====
